---- MODULE Spec2Model ----
(***************************************************************************)
(* robot_test_report.py: the traversal of a Robot Framework result tree    *)
(* (suites, tests, steps) into counts, a keyword tally and the lines of an *)
(* HTML report.                                                            *)
(*                                                                         *)
(* A Python str is modelled as a sequence of atoms.  An atom is a run of   *)
(* characters; the characters " ", "$" and "." are always atoms of their   *)
(* own, so that startswith('$'), split('  ') and the "." of a test id act  *)
(* on atoms as they act on characters.  Two strings are compared by their  *)
(* characters, not by their atoms.                                         *)
(***************************************************************************)
EXTENDS Integers, Sequences, FiniteSets, TLC

VARIABLES
    pc,                     \* position in main()
    argv,                   \* sys.argv
    suite,                  \* result.suite, the parsed tree (read-only input)
    total_test_cases,       \* main: line 741
    total_keywords,         \* main: line 741
    user_defined_keywords,  \* main: line 744
    keyword_counts,         \* main: line 747
    html_lines,             \* main: line 749
    files                   \* the files main has written: name -> lines

vars == <<pc, argv, suite, total_test_cases, total_keywords,
          user_defined_keywords, keyword_counts, html_lines, files>>

----------------------------------------------------------------------------
(* Bounds of the model *)

\* Largest number of step nodes in a generated test body.
MaxNodes == 3
\* Largest number of suites in a generated suite tree.
MaxSuites == 3

----------------------------------------------------------------------------
(* Strings *)

\* The characters of an atom of the model's strings, each as ord(c), its code
\* point
AtomChars(a) ==
    CASE a = " " -> <<32>>
      [] a = "$" -> <<36>>
      [] a = "." -> <<46>>
      [] a = "Browser" -> <<66, 114, 111, 119, 115, 101, 114>>
      [] a = "Click" -> <<67, 108, 105, 99, 107>>
      [] a = "Credentials" -> <<67, 114, 101, 100, 101, 110, 116, 105, 97, 108, 115>>
      [] a = "Enter" -> <<69, 110, 116, 101, 114>>
      [] a = "Log" -> <<76, 111, 103>>
      [] a = "Login" -> <<76, 111, 103, 105, 110>>
      [] a = "Message" -> <<77, 101, 115, 115, 97, 103, 101>>
      [] a = "Open" -> <<79, 112, 101, 110>>
      [] a = "Submit" -> <<83, 117, 98, 109, 105, 116>>
      [] a = "Tests" -> <<84, 101, 115, 116, 115>>
      [] a = "Valid" -> <<86, 97, 108, 105, 100>>
      [] a = "chrome" -> <<99, 104, 114, 111, 109, 101>>
      [] a = "{kw}" -> <<123, 107, 119, 125>>

\* The characters of a string, atom after atom
RECURSIVE chars(_)
chars(s) ==
    IF Len(s) = 0 THEN <<>> ELSE AtomChars(s[1]) \o chars(Tail(s))

\* str.startswith(prefix) for a one-character prefix
startswith(s, c) == Len(s) > 0 /\ s[1] = c

\* Mutant: s.split()[0], the text before the first space
RECURSIVE split0_whitespace(_)
split0_whitespace(s) ==
    IF Len(s) = 0 THEN <<>>
    ELSE IF s[1] = " " THEN <<>>
    ELSE <<s[1]>> \o split0_whitespace(Tail(s))

\* s.split('  ')[0]: the text before the first two consecutive spaces
RECURSIVE split0(_)
split0(s) ==
    IF Len(s) = 0 THEN <<>>
    ELSE IF Len(s) >= 2 /\ s[1] = " " /\ s[2] = " " THEN <<>>
    ELSE <<s[1]>> \o split0(Tail(s))

\* tag.lower(), on the tags of the model
lower(tag) ==
    CASE tag = "User_Defined" -> "user_defined"
      [] tag = "USER_DEFINED" -> "user_defined"
      [] tag = "Smoke"        -> "smoke"
      [] OTHER                -> tag

\* ' '.join(tags)
RECURSIVE join_tags(_)
join_tags(tags) ==
    IF Len(tags) = 0 THEN <<>>
    ELSE IF Len(tags) = 1 THEN <<tags[1]>>
    ELSE <<tags[1], " ">> \o join_tags(Tail(tags))

\* a < b for two sequences of code points: the first position where they
\* differ decides, and a proper prefix is smaller
RECURSIVE CodesLess(_, _)
CodesLess(a, b) ==
    IF Len(b) = 0 THEN FALSE
    ELSE IF Len(a) = 0 THEN TRUE
    ELSE IF a[1] = b[1] THEN CodesLess(Tail(a), Tail(b))
    ELSE a[1] < b[1]

\* a < b for two strings, as Python compares str: character by character,
\* whatever the atoms the characters are grouped in
StrLess(a, b) == CodesLess(chars(a), chars(b))

\* sorted(list(S)) for a set of strings
RECURSIVE sorted(_)
sorted(S) ==
    IF S = {} THEN <<>>
    ELSE LET m == CHOOSE x \in S : \A y \in S \ {x} : StrLess(x, y)
         IN  <<m>> \o sorted(S \ {m})

----------------------------------------------------------------------------
(* The result tree (robot.result): steps, tests, suites *)

\* absent: the names of the optional attributes (setup, teardown, tags) the
\* object does not have at all; hasattr is false of them and reading one
\* raises AttributeError
Step(type, status, kwname, tags, body) ==
    [type |-> type, status |-> status, kwname |-> kwname, tags |-> tags,
     body |-> body, absent |-> {}]

\* suite.setup / test.teardown of a suite or test that has none: a falsy
\* Keyword object
NoKeyword == Step("NONE", "NOT SET", <<>>, <<>>, <<>>)

\* bool(keyword)
Truthy(keyword) == keyword # NoKeyword

Test(name, setup, body, teardown) ==
    [name |-> name, setup |-> setup, body |-> body, teardown |-> teardown,
     absent |-> {}]

Suite(name, setup, teardown, tests, suites) ==
    [name |-> name, setup |-> setup, teardown |-> teardown, tests |-> tests,
     suites |-> suites, absent |-> {}]

\* hasattr(object, name), for the optional attributes
hasattr(object, name) == name \notin object.absent

----------------------------------------------------------------------------
(* Lines appended to html_lines *)

KeywordTypes == {"KEYWORD", "SETUP", "TEARDOWN"}

\* line 47: "<li class='..' data-tags='..'>name", the opening of a foldable item
LiOpen(class, tags, name) ==
    [line |-> "<li>", class |-> class, data_tags |-> join_tags(tags),
     text |-> name]
\* line 61: "<li class='..' data-tags='..'>name</li>"
LiItem(class, tags, name) ==
    [line |-> "<li></li>", class |-> class, data_tags |-> join_tags(tags),
     text |-> name]
UlOpen  == [line |-> "<ul>"]
UlClose == [line |-> "</ul>"]
LiClose == [line |-> "</li>"]
\* lines 73-81: the opening of a suite block, down to <div class="suite-content">
SuiteOpen(name) == [line |-> "<div class='test-suite'>", text |-> name]
\* lines 153-155
SuiteClose == [line |-> "</div></div> suite"]
\* lines 85-88, 113-116, 129-132, 144-147: the opening of a setup or teardown
\* section, down to <div class="keywords">
SectionOpen(title) == [line |-> "<div class='test-case'> section", text |-> title]
\* lines 90-92, 118-120, 134-136, 149-151
SectionClose == [line |-> "</div></div> section"]
\* lines 106-109: the opening of a test block, down to <div class="keywords">
TestOpen(name) == [line |-> "<div class='test-case'> test", text |-> name]
\* lines 138-140
TestClose == [line |-> "</div></div> test"]

----------------------------------------------------------------------------
(* extract_keywords, lines 7-66 *)

\* Mutant: the tag is compared as it is written
has_user_defined_tag_exact(tags) ==
    \E i \in 1..Len(tags) : tags[i] = "user_defined"

\* lines 27-31
has_user_defined_tag(tags) ==
    \E i \in 1..Len(tags) : lower(tags[i]) = "user_defined"

\* lines 22-24: tags = [], and item.tags if the item has tags
tags_of(item) == IF hasattr(item, "tags") THEN item.tags ELSE <<>>

\* lines 41-45 and 55-59
keyword_class(is_setup, is_teardown) ==
    IF is_setup THEN "setup-keyword"
    ELSE IF is_teardown THEN "teardown-keyword"
    ELSE ""

RECURSIVE extract_keywords(_, _, _), extract_nested(_, _, _)

\* Mutant: a control-flow item opens a list of its own around its children
extract_keywords_nesting(item, is_setup, is_teardown) ==
    IF item.status = "NOT RUN" THEN <<>>
    ELSE IF item.type \in KeywordTypes THEN
        IF item.kwname = <<>> \/ startswith(item.kwname, "$") THEN <<>>
        ELSE IF ~has_user_defined_tag(tags_of(item)) THEN <<>>
        ELSE
            LET keyword_name == split0(item.kwname)
                class == keyword_class(is_setup, is_teardown)
            IN  IF item.body # <<>>
                THEN <<LiOpen(class, tags_of(item), keyword_name), UlOpen>>
                     \o extract_nested(item.body, is_setup, is_teardown)
                     \o <<UlClose, LiClose>>
                     \o extract_nested(item.body, is_setup, is_teardown)
                ELSE <<LiItem(class, tags_of(item), keyword_name)>>
    ELSE <<UlOpen>> \o extract_nested(item.body, is_setup, is_teardown)
         \o <<UlClose>>

\* Mutant: the foldable item is left open
extract_keywords_unclosed(item, is_setup, is_teardown) ==
    IF item.status = "NOT RUN" THEN <<>>
    ELSE IF item.type \in KeywordTypes THEN
        IF item.kwname = <<>> \/ startswith(item.kwname, "$") THEN <<>>
        ELSE IF ~has_user_defined_tag(tags_of(item)) THEN <<>>
        ELSE
            LET keyword_name == split0(item.kwname)
                class == keyword_class(is_setup, is_teardown)
            IN  IF item.body # <<>>
                THEN <<LiOpen(class, tags_of(item), keyword_name), UlOpen>>
                     \o extract_nested(item.body, is_setup, is_teardown)
                     \o <<UlClose>>
                     \o extract_nested(item.body, is_setup, is_teardown)
                ELSE <<LiItem(class, tags_of(item), keyword_name)>>
    ELSE extract_nested(item.body, is_setup, is_teardown)

\* Mutant: only the first nested item is extracted
extract_nested_first(body, is_setup, is_teardown) ==
    IF body = <<>> THEN <<>>
    ELSE extract_keywords(Head(body), is_setup, is_teardown)

\* the lines one call appends to html_lines
extract_keywords(item, is_setup, is_teardown) ==
    IF item.status = "NOT RUN" THEN <<>>
    ELSE IF item.type \in KeywordTypes THEN
        IF item.kwname = <<>> \/ startswith(item.kwname, "$") THEN <<>>
        ELSE IF ~has_user_defined_tag(tags_of(item)) THEN <<>>
        ELSE
            LET keyword_name == split0(item.kwname)
                class == keyword_class(is_setup, is_teardown)
            IN  IF item.body # <<>>
                THEN <<LiOpen(class, tags_of(item), keyword_name), UlOpen>>
                     \o extract_nested(item.body, is_setup, is_teardown)
                     \o <<UlClose, LiClose>>
                     \* no return: lines 63-66 run for this item as well
                     \o extract_nested(item.body, is_setup, is_teardown)
                ELSE <<LiItem(class, tags_of(item), keyword_name)>>
    ELSE extract_nested(item.body, is_setup, is_teardown)

\* Mutant: the nested items are extracted last to first
extract_nested_reversed(body, is_setup, is_teardown) ==
    IF body = <<>> THEN <<>>
    ELSE extract_nested(Tail(body), is_setup, is_teardown)
         \o extract_keywords(Head(body), is_setup, is_teardown)

\* for nested_item in item.body: extract_keywords(nested_item, ...)
extract_nested(body, is_setup, is_teardown) ==
    IF body = <<>> THEN <<>>
    ELSE extract_keywords(Head(body), is_setup, is_teardown)
         \o extract_nested(Tail(body), is_setup, is_teardown)

----------------------------------------------------------------------------
(* process_suite, lines 68-155 *)

\* line 101
test_id(s, test) == s.name \o <<".">> \o test.name

\* Mutant: the body items are rendered last to first
RECURSIVE process_test_body_reversed(_)
process_test_body_reversed(body) ==
    IF body = <<>> THEN <<>>
    ELSE process_test_body_reversed(Tail(body))
         \o (IF Head(body).type \notin {"SETUP", "TEARDOWN"}
             THEN extract_keywords(Head(body), FALSE, FALSE) ELSE <<>>)

\* lines 123-125
RECURSIVE process_test_body(_)
process_test_body(body) ==
    IF body = <<>> THEN <<>>
    ELSE (IF Head(body).type \notin {"SETUP", "TEARDOWN"}
          THEN extract_keywords(Head(body), FALSE, FALSE) ELSE <<>>)
         \o process_test_body(Tail(body))

\* Mutant: a setup or teardown section is rendered only around a setup or
\* teardown that has nested items
process_test_nontrivial(test) ==
    <<TestOpen(test.name)>>
    \o (IF hasattr(test, "setup") /\ Truthy(test.setup)
           /\ test.setup.body # <<>>
        THEN <<SectionOpen("Test Setup")>>
             \o extract_keywords(test.setup, TRUE, FALSE) \o <<SectionClose>>
        ELSE <<>>)
    \o process_test_body(test.body)
    \o (IF hasattr(test, "teardown") /\ Truthy(test.teardown)
           /\ test.teardown.body # <<>>
        THEN <<SectionOpen("Test Teardown")>>
             \o extract_keywords(test.teardown, FALSE, TRUE) \o <<SectionClose>>
        ELSE <<>>)
    \o <<TestClose>>

\* lines 106-140: the block of one test
process_test(test) ==
    <<TestOpen(test.name)>>
    \o (IF hasattr(test, "setup") /\ Truthy(test.setup)
        THEN <<SectionOpen("Test Setup")>>
             \o extract_keywords(test.setup, TRUE, FALSE) \o <<SectionClose>>
        ELSE <<>>)
    \o process_test_body(test.body)
    \o (IF hasattr(test, "teardown") /\ Truthy(test.teardown)
        THEN <<SectionOpen("Test Teardown")>>
             \o extract_keywords(test.teardown, FALSE, TRUE) \o <<SectionClose>>
        ELSE <<>>)
    \o <<TestClose>>

RECURSIVE process_tests(_, _, _)

\* Mutant: the tests are rendered last to first
process_tests_reversed(s, tests, processed_tests) ==
    IF tests = <<>> THEN [html |-> <<>>, processed |-> processed_tests]
    ELSE LET rest == process_tests(s, Tail(tests), processed_tests)
         IN  IF test_id(s, Head(tests)) \in rest.processed THEN rest
             ELSE [html |-> rest.html \o process_test(Head(tests)),
                   processed |-> rest.processed \cup {test_id(s, Head(tests))}]

\* lines 99-140: for test in suite.tests; the result is the lines appended and
\* processed_tests afterwards
process_tests(s, tests, processed_tests) ==
    IF tests = <<>> THEN [html |-> <<>>, processed |-> processed_tests]
    ELSE IF test_id(s, Head(tests)) \in processed_tests
         THEN process_tests(s, Tail(tests), processed_tests)
         ELSE LET rest == process_tests(s, Tail(tests),
                              processed_tests \cup {test_id(s, Head(tests))})
              IN  [html |-> process_test(Head(tests)) \o rest.html,
                   processed |-> rest.processed]

RECURSIVE process_suite(_, _), process_subsuites(_, _)

\* Mutant: the tests of the suite are rendered before its sub-suites
process_suite_tests_first(s, processed_tests) ==
    LET tests == process_tests(s, s.tests, processed_tests)
        subs  == process_subsuites(s.suites, tests.processed)
    IN  [html |->
            <<SuiteOpen(s.name)>>
            \o (IF hasattr(s, "setup") /\ Truthy(s.setup)
                THEN <<SectionOpen("Suite Setup")>>
                     \o extract_keywords(s.setup, TRUE, FALSE)
                     \o <<SectionClose>>
                ELSE <<>>)
            \o tests.html
            \o subs.html
            \o (IF hasattr(s, "teardown") /\ Truthy(s.teardown)
                THEN <<SectionOpen("Suite Teardown")>>
                     \o extract_keywords(s.teardown, FALSE, TRUE)
                     \o <<SectionClose>>
                ELSE <<>>)
            \o <<SuiteClose>>,
         processed |-> subs.processed]

process_suite(s, processed_tests) ==
    LET subs  == process_subsuites(s.suites, processed_tests)
        tests == process_tests(s, s.tests, subs.processed)
    IN  [html |->
            <<SuiteOpen(s.name)>>
            \o (IF hasattr(s, "setup") /\ Truthy(s.setup)
                THEN <<SectionOpen("Suite Setup")>>
                     \o extract_keywords(s.setup, TRUE, FALSE)
                     \o <<SectionClose>>
                ELSE <<>>)
            \o subs.html
            \o tests.html
            \o (IF hasattr(s, "teardown") /\ Truthy(s.teardown)
                THEN <<SectionOpen("Suite Teardown")>>
                     \o extract_keywords(s.teardown, FALSE, TRUE)
                     \o <<SectionClose>>
                ELSE <<>>)
            \o <<SuiteClose>>,
         processed |-> tests.processed]

\* Mutant: only the first sub-suite is rendered
process_subsuites_first(suites, processed_tests) ==
    IF suites = <<>> THEN [html |-> <<>>, processed |-> processed_tests]
    ELSE process_suite(Head(suites), processed_tests)

\* lines 95-96: for subsuite in suite.suites
process_subsuites(suites, processed_tests) ==
    IF suites = <<>> THEN [html |-> <<>>, processed |-> processed_tests]
    ELSE LET first == process_suite(Head(suites), processed_tests)
             rest  == process_subsuites(Tail(suites), first.processed)
         IN  [html |-> first.html \o rest.html, processed |-> rest.processed]


----------------------------------------------------------------------------
(* count_test_cases_and_keywords and count_keywords_in_item, lines 157-204 *)

RECURSIVE count_keywords_in_item(_), count_keywords_in_body(_)

\* Mutant: the nested items are counted, but not what is below them
count_keywords_in_item_shallow(item) == Len(item.body)

count_keywords_in_item(item) == count_keywords_in_body(item.body)

\* lines 201-203: for nested_item in item.body
count_keywords_in_body(body) ==
    IF body = <<>> THEN 0
    ELSE 1 + count_keywords_in_item(Head(body))
         + count_keywords_in_body(Tail(body))

\* lines 164-165, 169-170, 176-177, 186-187: a setup or teardown, if there is one
count_fixture(keyword) ==
    IF Truthy(keyword) THEN 1 + count_keywords_in_item(keyword) ELSE 0

\* lines 173-187: for test in suite.tests
RECURSIVE count_keywords_in_tests(_)
count_keywords_in_tests(tests) ==
    IF tests = <<>> THEN 0
    ELSE (IF hasattr(Head(tests), "setup")
          THEN count_fixture(Head(tests).setup) ELSE 0)
         + count_keywords_in_body(Head(tests).body)
         + (IF hasattr(Head(tests), "teardown")
            THEN count_fixture(Head(tests).teardown) ELSE 0)
         + count_keywords_in_tests(Tail(tests))

RECURSIVE count_test_cases_and_keywords(_), count_subsuites(_)

\* the pair (total_test_cases, total_keywords)
count_test_cases_and_keywords(s) ==
    LET subs == count_subsuites(s.suites)
    IN  <<Len(s.tests) + subs[1],
          count_fixture(s.setup) + count_fixture(s.teardown)
          + count_keywords_in_tests(s.tests) + subs[2]>>

\* Mutant: only the first sub-suite is counted
count_subsuites_first(suites) ==
    IF suites = <<>> THEN <<0, 0>>
    ELSE count_test_cases_and_keywords(Head(suites))

\* lines 190-193: for subsuite in suite.suites
count_subsuites(suites) ==
    IF suites = <<>> THEN <<0, 0>>
    ELSE LET first == count_test_cases_and_keywords(Head(suites))
             rest  == count_subsuites(Tail(suites))
         IN  <<first[1] + rest[1], first[2] + rest[2]>>

\* lines 163, 168 and 191 (as 241, 245, 259 and 291, 295, 308): suite.setup
\* and suite.teardown are read without hasattr, which raises AttributeError
\* for a suite that lacks one of them, s itself or a suite below it.  The
\* counting functions return the values modelled here when nothing raises.
RECURSIVE raises_AttributeError(_)
raises_AttributeError(s) ==
    \/ ~hasattr(s, "setup")
    \/ ~hasattr(s, "teardown")
    \/ \E i \in 1..Len(s.suites) : raises_AttributeError(s.suites[i])

----------------------------------------------------------------------------
(* count_keyword_occurrences, lines 206-263.  A dict is a function whose   *)
(* domain is the set of its keys.                                          *)

EmptyDict == [k \in {} |-> 0]

\* d.get(k, 0)
dict_get(d, k) == IF k \in DOMAIN d THEN d[k] ELSE 0

\* d[k] = d.get(k, 0) + n
dict_add(d, k, n) ==
    [x \in DOMAIN d \cup {k} |-> IF x = k THEN dict_get(d, k) + n ELSE d[x]]

\* line 212
SpecialTypes == {"FOR", "IF/ELSE ROOT", "RETURN", "FOR ITERATION", "IF BRANCH"}

RECURSIVE count_in_item(_, _), count_in_body(_, _)

\* Mutant: a control-flow item is skipped with all that is below it
count_in_item_opaque(item, counts) ==
    IF item.type \in SpecialTypes THEN counts
    ELSE LET keyword_name == split0(item.kwname)
             counted ==
                 IF /\ item.type \in KeywordTypes
                    /\ ~startswith(keyword_name, "$")
                    /\ hasattr(item, "tags")
                    /\ has_user_defined_tag(item.tags)
                 THEN dict_add(counts, keyword_name, 1)
                 ELSE counts
         IN  count_in_body(item.body, counted)

\* lines 210-238: keyword_counts after count_in_item(item)
count_in_item(item, counts) ==
    IF item.type \in SpecialTypes THEN count_in_body(item.body, counts)
    ELSE LET keyword_name == split0(item.kwname)
             counted ==
                 IF /\ item.type \in KeywordTypes
                    /\ ~startswith(keyword_name, "$")
                    /\ hasattr(item, "tags")
                    /\ has_user_defined_tag(item.tags)
                 THEN dict_add(counts, keyword_name, 1)
                 ELSE counts
         IN  count_in_body(item.body, counted)

\* Mutant: only the first nested item is counted
count_in_body_first(body, counts) ==
    IF body = <<>> THEN counts ELSE count_in_item(Head(body), counts)

\* for nested_item in item.body: count_in_item(nested_item)
count_in_body(body, counts) ==
    IF body = <<>> THEN counts
    ELSE count_in_body(Tail(body), count_in_item(Head(body), counts))

\* lines 249-255: for test in suite.tests
RECURSIVE count_in_tests(_, _)
count_in_tests(tests, counts) ==
    IF tests = <<>> THEN counts
    ELSE LET test == Head(tests)
             c1 == IF hasattr(test, "setup") /\ Truthy(test.setup)
                   THEN count_in_item(test.setup, counts) ELSE counts
             c2 == count_in_body(test.body, c1)
             c3 == IF hasattr(test, "teardown") /\ Truthy(test.teardown)
                   THEN count_in_item(test.teardown, c2) ELSE c2
         IN  count_in_tests(Tail(tests), c3)

\* Mutant: a sub-suite's count replaces the count so far
RECURSIVE merge_counts_overwriting(_, _)
merge_counts_overwriting(counts, subsuite_counts) ==
    IF DOMAIN subsuite_counts = {} THEN counts
    ELSE LET keyword == CHOOSE k \in DOMAIN subsuite_counts : TRUE
             rest == [k \in DOMAIN subsuite_counts \ {keyword}
                        |-> subsuite_counts[k]]
         IN  merge_counts_overwriting(
                 [x \in DOMAIN counts \cup {keyword} |->
                     IF x = keyword THEN subsuite_counts[keyword]
                     ELSE counts[x]],
                 rest)

\* lines 260-261: for keyword, count in subsuite_counts.items()
RECURSIVE merge_counts(_, _)
merge_counts(counts, subsuite_counts) ==
    IF DOMAIN subsuite_counts = {} THEN counts
    ELSE LET keyword == CHOOSE k \in DOMAIN subsuite_counts : TRUE
             rest == [k \in DOMAIN subsuite_counts \ {keyword}
                        |-> subsuite_counts[k]]
         IN  merge_counts(dict_add(counts, keyword, subsuite_counts[keyword]),
                          rest)

RECURSIVE count_keyword_occurrences(_), count_in_subsuites(_, _)

count_keyword_occurrences(s) ==
    LET c1 == IF Truthy(s.setup)
              THEN count_in_item(s.setup, EmptyDict) ELSE EmptyDict
        c2 == IF Truthy(s.teardown) THEN count_in_item(s.teardown, c1) ELSE c1
        c3 == count_in_tests(s.tests, c2)
    IN  count_in_subsuites(s.suites, c3)

\* lines 258-261: for subsuite in suite.suites
count_in_subsuites(suites, counts) ==
    IF suites = <<>> THEN counts
    ELSE count_in_subsuites(Tail(suites),
             merge_counts(counts, count_keyword_occurrences(Head(suites))))

----------------------------------------------------------------------------
(* get_user_defined_keywords, lines 265-311.  id(item) is the item's place *)
(* in its suite: <<0>> the suite setup, <<1>> the suite teardown,          *)
(* <<2, i, 0>>, <<2, i, 1>> and <<2, i, 2, j>> the setup, teardown and     *)
(* j-th body item of test i, and p \o <<k>> the k-th body item of p.       *)

RECURSIVE process_item(_, _, _), process_body(_, _, _, _)

\* Mutant: the name is added whatever the tags
process_item_untagged(item, id, acc) ==
    IF id \in acc.visited THEN acc
    ELSE LET keyword_name == split0(item.kwname)
             keywords ==
                 IF /\ item.type \in KeywordTypes
                    /\ ~startswith(keyword_name, "$")
                 THEN acc.keywords \cup {keyword_name}
                 ELSE acc.keywords
         IN  process_body(item.body, id, 1,
                 [keywords |-> keywords, visited |-> acc.visited \cup {id}])

\* lines 270-288: acc is [keywords, visited] before the call, the result is
\* the same after it
process_item(item, id, acc) ==
    IF id \in acc.visited THEN acc
    ELSE LET keyword_name == split0(item.kwname)
             keywords ==
                 IF /\ item.type \in KeywordTypes
                    /\ ~startswith(keyword_name, "$")
                    /\ hasattr(item, "tags")
                    /\ has_user_defined_tag(item.tags)
                 THEN acc.keywords \cup {keyword_name}
                 ELSE acc.keywords
         IN  process_body(item.body, id, 1,
                 [keywords |-> keywords, visited |-> acc.visited \cup {id}])

\* for nested_item in item.body: process_item(nested_item), from the k-th on
process_body(body, id, k, acc) ==
    IF k > Len(body) THEN acc
    ELSE process_body(body, id, k + 1,
                      process_item(body[k], id \o <<k>>, acc))

\* lines 299-305: for test in suite.tests, from the i-th on
RECURSIVE process_tests_keywords(_, _, _)
process_tests_keywords(tests, i, acc) ==
    IF i > Len(tests) THEN acc
    ELSE LET test == tests[i]
             a1 == IF hasattr(test, "setup") /\ Truthy(test.setup)
                   THEN process_item(test.setup, <<2, i, 0>>, acc) ELSE acc
             a2 == process_body(test.body, <<2, i, 2>>, 1, a1)
             a3 == IF hasattr(test, "teardown") /\ Truthy(test.teardown)
                   THEN process_item(test.teardown, <<2, i, 1>>, a2) ELSE a2
         IN  process_tests_keywords(tests, i + 1, a3)

RECURSIVE user_defined_keyword_set(_), get_user_defined_keywords(_)

\* lines 267-309: the set keywords before it is sorted
user_defined_keyword_set(s) ==
    LET a0 == [keywords |-> {}, visited |-> {}]
        a1 == IF Truthy(s.setup) THEN process_item(s.setup, <<0>>, a0) ELSE a0
        a2 == IF Truthy(s.teardown)
              THEN process_item(s.teardown, <<1>>, a1) ELSE a1
        a3 == process_tests_keywords(s.tests, 1, a2)
    IN  a3.keywords
        \cup UNION { {get_user_defined_keywords(s.suites[i])[j]
                        : j \in 1..Len(get_user_defined_keywords(s.suites[i]))}
                     : i \in 1..Len(s.suites) }

get_user_defined_keywords(s) == sorted(user_defined_keyword_set(s))


----------------------------------------------------------------------------
(* The result trees the parser hands to main *)

OpenBrowser      == <<"Open", " ", "Browser">>
EnterCredentials == <<"Enter", " ", "Credentials">>
ClickSubmit      == <<"Click", " ", "Submit">>
LogMessage       == <<"Log", " ", "Message">>
LoginTests       == <<"Login", " ", "Tests">>
ValidLogin       == <<"Valid", " ", "Login">>
UserDefined      == <<"user_defined">>
\* a raw name with its argument text, which follows two spaces
OpenBrowserChrome == <<"Open", " ", "Browser", " ", " ", "chrome">>

\* A keyword call without children
Call(status, kwname, tags) == Step("KEYWORD", status, kwname, tags, <<>>)
\* A control-flow item without children
Control(type, status) == Step(type, status, <<>>, <<>>, <<>>)

\* The steps a generated test body of up to MaxNodes nodes is made of, before
\* they get their children
CoreHeads ==
    { Call("PASS", OpenBrowser, UserDefined),
      Call("PASS", LogMessage, UserDefined),
      Call("NOT RUN", OpenBrowser, UserDefined),
      Call("PASS", OpenBrowser, <<>>),
      Control("FOR", "PASS") }

\* The steps a generated test body of fewer nodes is made of
AllHeads ==
    CoreHeads \cup
    { Call("PASS", <<"$", "{kw}">>, UserDefined),
      Call("PASS", <<>>, UserDefined),
      Call("PASS", OpenBrowserChrome, UserDefined),
      Control("IF BRANCH", "NOT RUN"),
      Control("FOR ITERATION", "PASS"),
      Control("IF/ELSE ROOT", "PASS"),
      Control("IF BRANCH", "PASS") }

\* The bodies of exactly n step nodes: a first item with k nodes below it,
\* followed by a body of the remaining n - 1 - k
RECURSIVE StepForests(_, _)
StepForests(heads, n) ==
    IF n = 0 THEN {<<>>}
    ELSE UNION { { <<[h EXCEPT !.body = kids]>> \o rest :
                     h \in heads,
                     kids \in StepForests(heads, k),
                     rest \in StepForests(heads, n - 1 - k) } : k \in 0..(n - 1) }

Bodies ==
    UNION { StepForests(CoreHeads, n) : n \in 0..MaxNodes }
    \cup UNION { StepForests(AllHeads, n) : n \in 0..(MaxNodes - 1) }

\* One suite with one test, without setups or teardowns, around each body
BodyTrees ==
    { Suite(LoginTests, NoKeyword, NoKeyword,
            <<Test(ValidLogin, NoKeyword, b, NoKeyword)>>, <<>>) : b \in Bodies }

SetupKeyword ==
    Step("SETUP", "PASS", LogMessage, UserDefined,
         <<Call("PASS", OpenBrowser, UserDefined)>>)
TeardownKeyword ==
    Step("TEARDOWN", "PASS", LogMessage, UserDefined,
         <<Call("PASS", LogMessage, <<>>)>>)
PlainTest ==
    Test(ValidLogin, NoKeyword, <<Call("PASS", OpenBrowser, UserDefined)>>,
         NoKeyword)
FixtureTest ==
    Test(<<"Login">>, SetupKeyword,
         <<Control("FOR", "PASS"), Call("PASS", LogMessage, UserDefined)>>,
         TeardownKeyword)

\* The suites a generated suite tree is made of, before they get sub-suites
SuiteHeads ==
    { Suite(name, c[1], c[2], c[3], <<>>) :
        name \in {LoginTests, <<"Tests">>},
        c \in { <<NoKeyword, NoKeyword, <<>>>>,
                <<NoKeyword, NoKeyword, <<PlainTest>>>>,
                <<SetupKeyword, TeardownKeyword, <<PlainTest, FixtureTest>>>> } }

\* The sequences of suite trees of exactly n suites in all
RECURSIVE SuiteForests(_)
SuiteForests(n) ==
    IF n = 0 THEN {<<>>}
    ELSE UNION { { <<[h EXCEPT !.suites = kids]>> \o rest :
                     h \in SuiteHeads,
                     kids \in SuiteForests(k),
                     rest \in SuiteForests(n - 1 - k) } : k \in 0..(n - 1) }

SuiteTrees ==
    UNION { { [h EXCEPT !.suites = kids] :
                h \in SuiteHeads, kids \in SuiteForests(n - 1) }
            : n \in 1..MaxSuites }

\* The worked example of the specification: suite "Login Tests", test
\* "Valid Login", three keyword calls, with and without the user_defined tag
LoginExample(tags) ==
    Suite(LoginTests, NoKeyword, NoKeyword,
          <<Test(ValidLogin, NoKeyword,
                 <<Call("PASS", OpenBrowser, tags),
                   Call("PASS", EnterCredentials, tags),
                   Call("PASS", ClickSubmit, tags)>>,
                 NoKeyword)>>,
          <<>>)

\* The loop example of the specification: a test whose only step is a FOR
\* loop around two calls of "Log Message", one per iteration or both in one
LoopExample(tags, iterations) ==
    LET log == Call("PASS", LogMessage, tags)
        iteration(calls) == Step("FOR ITERATION", "PASS", <<>>, <<>>, calls)
    IN  Suite(LoginTests, NoKeyword, NoKeyword,
              <<Test(ValidLogin, NoKeyword,
                     <<Step("FOR", "PASS", <<>>, <<>>,
                            IF iterations = 2
                            THEN <<iteration(<<log>>), iteration(<<log>>)>>
                            ELSE <<iteration(<<log, log>>)>>)>>,
                     NoKeyword)>>,
              <<>>)

\* Two tests of one suite that share their name
TwinTests ==
    Suite(LoginTests, NoKeyword, NoKeyword,
          <<PlainTest,
            Test(ValidLogin, NoKeyword, <<Call("PASS", LogMessage, UserDefined)>>,
                 NoKeyword)>>,
          <<>>)

\* A test whose setup and teardown are calls without nested items, next to
\* one whose setup and teardown have some
BareFixtures ==
    Suite(LoginTests, NoKeyword, NoKeyword,
          <<Test(ValidLogin,
                 Step("SETUP", "PASS", OpenBrowser, UserDefined, <<>>),
                 <<Call("PASS", EnterCredentials, UserDefined)>>,
                 Step("TEARDOWN", "PASS", LogMessage, <<>>, <<>>)),
            FixtureTest>>,
          <<>>)

\* Two tests, the first with a setup, a body step and a teardown that each
\* have nested items of different names
NestedSteps ==
    Suite(LoginTests, NoKeyword, NoKeyword,
          <<Test(ValidLogin,
                 Step("SETUP", "PASS", OpenBrowser, UserDefined,
                      <<Call("PASS", LogMessage, UserDefined),
                        Call("PASS", EnterCredentials, UserDefined)>>),
                 <<Call("PASS", ClickSubmit, UserDefined),
                   Step("KEYWORD", "PASS", EnterCredentials, UserDefined,
                        <<Call("PASS", LogMessage, UserDefined),
                          Control("FOR", "PASS"),
                          Call("PASS", OpenBrowser, UserDefined)>>)>>,
                 TeardownKeyword),
            Test(<<"Login">>, NoKeyword,
                 <<Call("PASS", OpenBrowser, UserDefined)>>, NoKeyword)>>,
          <<>>)

\* Tags in other spellings and next to other tags, and items of type SETUP
\* and TEARDOWN in the body of a test
MixedTags ==
    Suite(LoginTests, NoKeyword, NoKeyword,
          <<Test(ValidLogin, NoKeyword,
                 <<Call("PASS", OpenBrowser, <<"Smoke", "User_Defined">>),
                   Call("PASS", LogMessage, <<"Smoke">>),
                   Step("SETUP", "PASS", EnterCredentials, UserDefined, <<>>),
                   Step("TEARDOWN", "PASS", ClickSubmit, <<"USER_DEFINED">>,
                        <<Call("PASS", OpenBrowser, <<"USER_DEFINED">>)>>)>>,
                 NoKeyword)>>,
          <<>>)

\* Keyword names where one begins with the characters of the other and the
\* next character decides their order: 'Login' < 'Log{kw}' < 'Login$'
PrefixNames ==
    Suite(LoginTests, NoKeyword, NoKeyword,
          <<Test(ValidLogin, NoKeyword,
                 <<Call("PASS", <<"Log", "{kw}">>, UserDefined),
                   Call("PASS", <<"Login", "$">>, UserDefined),
                   Call("PASS", <<"Login">>, UserDefined),
                   Call("PASS", <<"Log">>, UserDefined),
                   Call("PASS", <<"Log", "{kw}">>, UserDefined)>>,
                 NoKeyword)>>,
          <<>>)

ExampleTrees ==
    { LoginExample(tags) : tags \in {<<>>, UserDefined} }
    \cup { LoopExample(tags, n) : tags \in {<<>>, UserDefined}, n \in 1..2 }
    \cup { TwinTests, BareFixtures, MixedTags, PrefixNames, NestedSteps }

\* A suite or test without some of its optional attributes
WithoutFixtures(object, names) ==
    [object EXCEPT !.absent = names,
                   !.setup = IF "setup" \in names THEN NoKeyword ELSE @,
                   !.teardown = IF "teardown" \in names THEN NoKeyword ELSE @]
\* A step without the attribute tags
WithoutTags(item) == [item EXCEPT !.absent = {"tags"}, !.tags = <<>>]

\* Trees of objects that lack optional attributes: the root suite lacks sa,
\* its sub-suite sb, its test ta, and the steps of the test have no tags
\* attribute if untagged
Optional == SUBSET {"setup", "teardown"}
DuckTrees ==
    { WithoutFixtures(
          Suite(LoginTests, SetupKeyword, TeardownKeyword,
                <<WithoutFixtures(
                      Test(ValidLogin, SetupKeyword,
                           <<IF untagged
                             THEN WithoutTags(Call("PASS", OpenBrowser, <<>>))
                             ELSE Call("PASS", OpenBrowser, UserDefined)>>,
                           TeardownKeyword), ta)>>,
                <<WithoutFixtures(
                      Suite(<<"Tests">>, SetupKeyword, NoKeyword,
                            <<PlainTest>>, <<>>), sb)>>), sa)
      : sa \in Optional, sb \in Optional, ta \in Optional,
        untagged \in BOOLEAN }

Trees == BodyTrees \cup SuiteTrees \cup ExampleTrees \cup DuckTrees

----------------------------------------------------------------------------
(* main, lines 732-1450 *)

ReportName == "test_suite_overview.html"

Argvs == { <<"robot_test_report.py">>,
           <<"robot_test_report.py", "output.xml">>,
           <<"robot_test_report.py", "output.xml", "report.html">> }

NoSuite == Suite(<<>>, NoKeyword, NoKeyword, <<>>, <<>>)
NoFiles == [name \in {} |-> <<>>]

\* sorted(keyword_counts.items())
sorted_items(counts) ==
    LET keys == sorted(DOMAIN counts)
    IN  [i \in 1..Len(keys) |-> <<keys[i], counts[keys[i]]>>]

\* lines 1054-1114: the head of the document, with the statistics
Header(tests, keywords, counts) ==
    [line |-> "<!DOCTYPE html>", total_test_cases |-> tests,
     total_keywords |-> keywords, keyword_stats |-> sorted_items(counts)]

\* lines 1120-1446: the closing tags and the script
Footer(keywords) == [line |-> "</html>", userDefinedKeywords |-> keywords]

Init ==
    /\ pc = "start"
    /\ argv \in Argvs
    /\ suite = NoSuite
    /\ total_test_cases = 0
    /\ total_keywords = 0
    /\ user_defined_keywords = <<>>
    /\ keyword_counts = EmptyDict
    /\ html_lines = <<>>
    /\ files = NoFiles

\* Mutant: a second argument is let through
CheckArgs_lenient ==
    /\ pc = "start"
    /\ pc' = IF Len(argv) < 2 THEN "exit 1" ELSE "parse"
    /\ UNCHANGED <<argv, suite, total_test_cases, total_keywords,
                   user_defined_keywords, keyword_counts, html_lines, files>>

\* lines 733-735
CheckArgs ==
    /\ pc = "start"
    /\ pc' = IF Len(argv) # 2 THEN "exit 1" ELSE "parse"
    /\ UNCHANGED <<argv, suite, total_test_cases, total_keywords,
                   user_defined_keywords, keyword_counts, html_lines, files>>

\* lines 737-738: ExecutionResult(output_file) returns a tree
Parse ==
    /\ pc = "parse"
    /\ suite' \in Trees
    /\ pc' = "count"
    /\ UNCHANGED <<argv, total_test_cases, total_keywords,
                   user_defined_keywords, keyword_counts, html_lines, files>>

\* lines 737-738: ExecutionResult(output_file) raises (no such file, not a
\* result document)
ParseFails ==
    /\ pc = "parse"
    /\ pc' = "raised"
    /\ UNCHANGED <<argv, suite, total_test_cases, total_keywords,
                   user_defined_keywords, keyword_counts, html_lines, files>>

\* line 741
CountTestCasesAndKeywords ==
    /\ pc = "count"
    /\ IF raises_AttributeError(suite)
       THEN /\ pc' = "AttributeError"
            /\ UNCHANGED <<total_test_cases, total_keywords>>
       ELSE /\ total_test_cases' = count_test_cases_and_keywords(suite)[1]
            /\ total_keywords' = count_test_cases_and_keywords(suite)[2]
            /\ pc' = "keywords"
    /\ UNCHANGED <<argv, suite, user_defined_keywords, keyword_counts,
                   html_lines, files>>

\* line 744
GetUserDefinedKeywords ==
    /\ pc = "keywords"
    /\ IF raises_AttributeError(suite)
       THEN pc' = "AttributeError" /\ UNCHANGED user_defined_keywords
       ELSE /\ user_defined_keywords' = get_user_defined_keywords(suite)
            /\ pc' = "occurrences"
    /\ UNCHANGED <<argv, suite, total_test_cases, total_keywords,
                   keyword_counts, html_lines, files>>

\* Mutant: the tests are taken off the tree as they are counted
CountKeywordOccurrences_consuming ==
    /\ pc = "occurrences"
    /\ IF raises_AttributeError(suite)
       THEN pc' = "AttributeError" /\ UNCHANGED <<keyword_counts, suite>>
       ELSE /\ keyword_counts' = count_keyword_occurrences(suite)
            /\ suite' = [suite EXCEPT !.tests = <<>>]
            /\ pc' = "render"
    /\ UNCHANGED <<argv, total_test_cases, total_keywords,
                   user_defined_keywords, html_lines, files>>

\* line 747
CountKeywordOccurrences ==
    /\ pc = "occurrences"
    /\ IF raises_AttributeError(suite)
       THEN pc' = "AttributeError" /\ UNCHANGED keyword_counts
       ELSE /\ keyword_counts' = count_keyword_occurrences(suite)
            /\ pc' = "render"
    /\ UNCHANGED <<argv, suite, total_test_cases, total_keywords,
                   user_defined_keywords, html_lines, files>>

\* Mutant: the file is opened before the lines are made, and holds the head
\* of the document from then on
Render_streaming ==
    /\ pc = "render"
    /\ html_lines' =
           <<Header(total_test_cases, total_keywords, keyword_counts)>>
           \o process_suite(suite, {}).html
           \o <<Footer(user_defined_keywords)>>
    /\ files' = [name \in {ReportName} |->
                    <<Header(total_test_cases, total_keywords, keyword_counts)>>]
    /\ pc' = "write"
    /\ UNCHANGED <<argv, suite, total_test_cases, total_keywords,
                   user_defined_keywords, keyword_counts>>

\* lines 749-1446
Render ==
    /\ pc = "render"
    /\ html_lines' =
           <<Header(total_test_cases, total_keywords, keyword_counts)>>
           \o process_suite(suite, {}).html
           \o <<Footer(user_defined_keywords)>>
    /\ pc' = "write"
    /\ UNCHANGED <<argv, suite, total_test_cases, total_keywords,
                   user_defined_keywords, keyword_counts, files>>

\* lines 1448-1450
WriteReport ==
    /\ pc = "write"
    /\ files' = [name \in DOMAIN files \cup {ReportName} |->
                    IF name = ReportName THEN html_lines ELSE files[name]]
    /\ pc' = "done"
    /\ UNCHANGED <<argv, suite, total_test_cases, total_keywords,
                   user_defined_keywords, keyword_counts, html_lines>>

Next ==
    \/ CheckArgs
    \/ Parse
    \/ ParseFails
    \/ CountTestCasesAndKeywords
    \/ GetUserDefinedKeywords
    \/ CountKeywordOccurrences
    \/ Render
    \/ WriteReport

Spec == Init /\ [][Next]_vars


----------------------------------------------------------------------------
(* The raw tree, addressed node by node.  A suite is addressed by the       *)
(* indexes that lead to it from the root suite; a step by its suite, the    *)
(* index of the setup, body item or teardown it belongs to among those of   *)
(* the suite and its tests, and the body indexes that lead to it from there. *)

RECURSIVE SuitePaths(_)
SuitePaths(s) ==
    {<<>>} \cup UNION { { <<i>> \o sp : sp \in SuitePaths(s.suites[i]) }
                        : i \in 1..Len(s.suites) }

RECURSIVE SuiteAt(_, _)
SuiteAt(s, sp) ==
    IF sp = <<>> THEN s ELSE SuiteAt(s.suites[Head(sp)], Tail(sp))

\* A setup or teardown as a list of zero or one steps
Fixture(keyword) == IF keyword = NoKeyword THEN <<>> ELSE <<keyword>>

RECURSIVE TestRoots(_)
TestRoots(tests) ==
    IF tests = <<>> THEN <<>>
    ELSE Fixture(Head(tests).setup) \o Head(tests).body
         \o Fixture(Head(tests).teardown) \o TestRoots(Tail(tests))

\* The setups, body items and teardowns a suite owns itself
Roots(s) == Fixture(s.setup) \o Fixture(s.teardown) \o TestRoots(s.tests)

RECURSIVE StepPaths(_)
StepPaths(item) ==
    {<<>>} \cup UNION { { <<i>> \o p : p \in StepPaths(item.body[i]) }
                        : i \in 1..Len(item.body) }

RECURSIVE StepAt(_, _)
StepAt(item, p) ==
    IF p = <<>> THEN item ELSE StepAt(item.body[Head(p)], Tail(p))

\* The step nodes a suite owns itself: root is the index among Roots(s), path
\* the body indexes from there, item the step
OwnNodes(s) ==
    LET roots == Roots(s)
    IN  UNION { { [root |-> r, path |-> p, item |-> StepAt(roots[r], p)]
                  : p \in StepPaths(roots[r]) } : r \in 1..Len(roots) }

\* All step nodes of a tree, each with its address
StepNodes(tree) ==
    UNION { { [suite |-> sp, root |-> a.root, path |-> a.path, item |-> a.item]
              : a \in OwnNodes(SuiteAt(tree, sp)) }
            : sp \in SuitePaths(tree) }

\* The addresses of all tests of a tree
TestsOf(tree) ==
    UNION { { <<sp, i>> : i \in 1..Len(SuiteAt(tree, sp).tests) }
            : sp \in SuitePaths(tree) }

ControlTypes == {"FOR", "FOR ITERATION", "IF/ELSE ROOT", "IF BRANCH"}

\* count_test_cases_and_keywords has just returned (line 741),
\* count_keyword_occurrences has (line 747), html_lines is complete (line 1446)
Counted   == pc = "keywords"
Tallied   == pc = "render"
Rendered  == pc = "write"

----------------------------------------------------------------------------
(* C1: totalKeywords, as returned by count_test_cases_and_keywords, is the  *)
(* number of step nodes of the raw tree: every suite setup and teardown,    *)
(* test setup, body item and test teardown and every descendant of these,   *)
(* in all suites, once, whatever its status, type, name or tags.            *)
C1_TotalKeywordsCountsEveryNode ==
    Counted => total_keywords = Cardinality(StepNodes(suite))

\* A counted tree of three steps: a control-flow item, a NOT RUN step below
\* it and an untagged call
C1_Witness ==
    /\ Counted
    /\ total_keywords = 3
    /\ \E a, b, c \in StepNodes(suite) :
          /\ a.item.status = "NOT RUN"
          /\ b.item.type = "FOR"
          /\ c.item.tags = <<>> /\ c.item.type = "KEYWORD"
          /\ a.root = b.root /\ a.path = b.path \o <<1>>


----------------------------------------------------------------------------
(* Rendered items *)

\* A line that renders a step: lines 47 and 61
IsItem(l) == l.line \in {"<li>", "<li></li>"}

\* The names of the rendered items of some lines, in order
RECURSIVE ItemNames(_)
ItemNames(lines) ==
    IF lines = <<>> THEN <<>>
    ELSE (IF IsItem(Head(lines)) THEN <<Head(lines).text>> ELSE <<>>)
         \o ItemNames(Tail(lines))

\* How many rendered items of some lines carry the name
ItemCount(lines, name) ==
    Cardinality({ i \in 1..Len(lines) : IsItem(lines[i]) /\ lines[i].text = name })

\* The ways extract_keywords is called: plain, for a setup, for a teardown
Flags == { <<FALSE, FALSE>>, <<TRUE, FALSE>>, <<FALSE, TRUE>> }

\* A body without its NOT RUN items and, below the items kept, theirs
RECURSIVE ExecutedBody(_)
ExecutedBody(body) ==
    IF body = <<>> THEN <<>>
    ELSE (IF Head(body).status = "NOT RUN" THEN <<>>
          ELSE <<[Head(body) EXCEPT !.body = ExecutedBody(@)]>>)
         \o ExecutedBody(Tail(body))

ExecutedFixture(keyword) ==
    IF keyword.status = "NOT RUN" THEN NoKeyword
    ELSE [keyword EXCEPT !.body = ExecutedBody(@)]

\* The tree without its NOT RUN steps
RECURSIVE ExecutedTree(_)
ExecutedTree(s) ==
    Suite(s.name, ExecutedFixture(s.setup), ExecutedFixture(s.teardown),
          [i \in 1..Len(s.tests) |->
              Test(s.tests[i].name, ExecutedFixture(s.tests[i].setup),
                   ExecutedBody(s.tests[i].body),
                   ExecutedFixture(s.tests[i].teardown))],
          [i \in 1..Len(s.suites) |-> ExecutedTree(s.suites[i])])

\* The rendered half of C2: the items extract_keywords renders for a step
\* are those it renders for the step without the NOT RUN steps below it,
\* and none if the step itself is NOT RUN
NotRunNotRendered ==
    \A n \in StepNodes(suite) : \A f \in Flags :
        LET item == n.item
        IN  ItemNames(extract_keywords(item, f[1], f[2])) =
                IF item.status = "NOT RUN" THEN <<>>
                ELSE ItemNames(extract_keywords(
                         [item EXCEPT !.body = ExecutedBody(@)], f[1], f[2]))

\* The counted half of C2: the mapping is that of the tree without its
\* NOT RUN steps
NotRunNotCounted ==
    keyword_counts = count_keyword_occurrences(ExecutedTree(suite))

(* C2: for every step whose status is NOT RUN, neither the step nor any of *)
(* its descendants appears in the output of extract_keywords, and neither  *)
(* contributes to the mapping returned by count_keyword_occurrences.       *)
C2_NotRunExcluded ==
    Tallied => NotRunNotRendered /\ NotRunNotCounted

\* The half of C2 the code keeps
C2_RenderedHalf == Tallied => NotRunNotRendered

\* A step without a name, or named by a variable
IsPlaceholder(item) ==
    /\ item.type \in KeywordTypes
    /\ item.status # "NOT RUN"
    /\ (item.kwname = <<>> \/ startswith(item.kwname, "$"))

(* C3: a step whose name is empty or begins with '$' is not emitted by     *)
(* extract_keywords, but its children are flattened into the output in its *)
(* place, at its nesting level.                                            *)
C3_PlaceholderChildrenPromoted ==
    Rendered =>
        \A n \in StepNodes(suite) : \A f \in Flags :
            LET item == n.item
            IN  IsPlaceholder(item) =>
                    extract_keywords(item, f[1], f[2]) =
                        extract_nested(item.body, f[1], f[2])

\* The half of C3 the code keeps: a placeholder is never an item
C3_PlaceholderNotEmitted ==
    Rendered =>
        \A n \in StepNodes(suite) : \A f \in Flags :
            LET item == n.item
                out  == extract_keywords(item, f[1], f[2])
            IN  IsPlaceholder(item) =>
                    \A i \in 1..Len(out) :
                        IsItem(out[i]) => /\ out[i].text # <<>>
                                          /\ ~startswith(out[i].text, "$")

\* An executed control-flow container
IsContainer(item) == item.type \in ControlTypes /\ item.status # "NOT RUN"

\* The lines of the items of a body from the k-th on, one after the other
RECURSIVE LinesOfChildren(_, _, _)
LinesOfChildren(body, k, f) ==
    IF k > Len(body) THEN <<>>
    ELSE extract_keywords(body[k], f[1], f[2]) \o LinesOfChildren(body, k + 1, f)

\* A body with each control-flow container replaced by its children
RECURSIVE Spliced(_)
Spliced(body) ==
    IF body = <<>> THEN <<>>
    ELSE (IF Head(body).type \in ControlTypes
          THEN Spliced(Head(body).body)
          ELSE <<[Head(body) EXCEPT !.body = Spliced(@)]>>)
         \o Spliced(Tail(body))

SplicedFixture(keyword) == [keyword EXCEPT !.body = Spliced(@)]

RECURSIVE SplicedTree(_)
SplicedTree(s) ==
    Suite(s.name, SplicedFixture(s.setup), SplicedFixture(s.teardown),
          [i \in 1..Len(s.tests) |->
              Test(s.tests[i].name, SplicedFixture(s.tests[i].setup),
                   Spliced(s.tests[i].body),
                   SplicedFixture(s.tests[i].teardown))],
          [i \in 1..Len(s.suites) |-> SplicedTree(s.suites[i])])

(* C4: a control-flow container (FOR, FOR ITERATION, IF/ELSE ROOT,         *)
(* IF BRANCH) is never emitted by extract_keywords and never counted by    *)
(* count_keyword_occurrences: what extract_keywords appends for an         *)
(* executed container is what it appends for the container's children, in  *)
(* source order and with no list opened around them, and the mapping is    *)
(* that of the tree with every container replaced by its children.         *)
C4_ContainersTransparent ==
    Rendered =>
        /\ \A n \in StepNodes(suite) : \A f \in Flags :
              LET item == n.item
              IN  IsContainer(item) =>
                      extract_keywords(item, f[1], f[2]) =
                          LinesOfChildren(item.body, 1, f)
        /\ keyword_counts = count_keyword_occurrences(SplicedTree(suite))

\* A rendered tree with a container two of whose children are rendered, in
\* their order, and counted
C4_Witness ==
    /\ Rendered
    /\ \E n \in StepNodes(suite) :
          LET item == n.item
          IN  /\ IsContainer(item)
              /\ ItemNames(extract_keywords(item, FALSE, FALSE))
                     = <<LogMessage, OpenBrowser>>
    /\ keyword_counts[LogMessage] = 1
    /\ keyword_counts[OpenBrowser] = 1


\* A step extract_keywords renders when it is called on it
IsEmitted(item) ==
    /\ item.type \in KeywordTypes
    /\ item.status # "NOT RUN"
    /\ item.kwname # <<>>
    /\ ~startswith(item.kwname, "$")
    /\ has_user_defined_tag(item.tags)

\* The name a step is shown under: the raw name up to its first double space
DisplayName(item) == split0(item.kwname)

\* The steps between the step c and the step at q below it, and that step
Below(c, q) == { StepAt(c, SubSeq(q, 1, j)) : j \in 1..Len(q) }
Between(c, q) == { StepAt(c, SubSeq(q, 1, j)) : j \in 1..(Len(q) - 1) }

(* C5 as stated: for every executed container, every non-container step    *)
(* below it that is not NOT RUN and has no NOT RUN ancestor appears as a    *)
(* rendered item in the output of extract_keywords.                         *)
C5_EveryStepBelowContainerRendered ==
    Rendered =>
        \A n \in StepNodes(suite) :
            LET c   == n.item
                out == extract_keywords(c, FALSE, FALSE)
            IN  IsContainer(c) =>
                    \A q \in StepPaths(c) \ {<<>>} :
                        LET d == StepAt(c, q)
                        IN  (/\ d.type \notin ControlTypes
                             /\ \A a \in Below(c, q) : a.status # "NOT RUN")
                            => ItemCount(out, DisplayName(d)) >= 1

\* The steps below the container c that carry the name and are reached
\* through executed containers and rendered keywords only
ReachedBelow(c, name) ==
    { q \in StepPaths(c) \ {<<>>} :
        /\ IsEmitted(StepAt(c, q))
        /\ DisplayName(StepAt(c, q)) = name
        /\ \A a \in Between(c, q) : IsContainer(a) \/ IsEmitted(a) }

(* C5 as amended: for every executed container, every executed step of     *)
(* type KEYWORD, SETUP or TEARDOWN below it that has a non-empty name not   *)
(* starting with '$' and a user_defined tag, and is reached through         *)
(* executed containers and rendered keywords only, appears as a rendered    *)
(* item: the output holds at least as many items of each name as there are  *)
(* such steps.                                                              *)
C5_TaggedStepsBelowContainerRendered ==
    Rendered =>
        \A n \in StepNodes(suite) :
            LET c   == n.item
                out == extract_keywords(c, FALSE, FALSE)
            IN  IsContainer(c) =>
                    \A q \in StepPaths(c) \ {<<>>} :
                        LET name == DisplayName(StepAt(c, q))
                        IN  ItemCount(out, name)
                                >= Cardinality(ReachedBelow(c, name))

\* A container with a rendered step below a nested container, rendered once
C5_Witness ==
    /\ Rendered
    /\ \E n \in StepNodes(suite) :
          LET c == n.item
          IN  /\ IsContainer(c)
              /\ \E q \in ReachedBelow(c, LogMessage) :
                    Len(q) = 2 /\ IsContainer(StepAt(c, <<q[1]>>))
              /\ ItemCount(extract_keywords(c, FALSE, FALSE), LogMessage) = 1

\* The names of the steps of a tree, as shown
NamesOf(tree) == { DisplayName(n.item) : n \in StepNodes(tree) }

(* C6 as stated: keywordOccurrences[n] is the number of steps in the whole  *)
(* tree that are not control-flow containers, whose name is non-empty and   *)
(* does not start with '$', and whose display name is n.                    *)
C6_CountsEveryNamedStep ==
    Tallied =>
        \A name \in NamesOf(suite) :
            dict_get(keyword_counts, name) =
                Cardinality({ n \in StepNodes(suite) :
                    LET item == n.item
                    IN  /\ item.type \notin ControlTypes
                        /\ item.kwname # <<>>
                        /\ ~startswith(item.kwname, "$")
                        /\ DisplayName(item) = name })

\* A step count_keyword_occurrences counts, under its display name
IsCounted(item) ==
    /\ item.type \in KeywordTypes
    /\ has_user_defined_tag(item.tags)
    /\ ~startswith(DisplayName(item), "$")

(* C6 as amended: keywordOccurrences[n] is the number of steps in the whole *)
(* tree of type KEYWORD, SETUP or TEARDOWN that carry a user_defined tag    *)
(* and whose display name (the raw name up to its first double space) is n  *)
(* and does not start with '$', whatever their status and including steps   *)
(* with an empty name (counted under the key ''); the mapping has no other  *)
(* keys, and every step extract_keywords renders is rendered under the key  *)
(* it is counted under.                                                     *)
C6_CountsTaggedKeywordSteps ==
    Tallied =>
        LET nodes   == StepNodes(suite)
            counted == { n \in nodes : IsCounted(n.item) }
        IN  /\ DOMAIN keyword_counts = { DisplayName(n.item) : n \in counted }
            /\ \A name \in DOMAIN keyword_counts :
                  keyword_counts[name] =
                      Cardinality({ n \in counted : DisplayName(n.item) = name })
            /\ \A n \in nodes :
                  IsEmitted(n.item) =>
                      /\ n \in counted
                      /\ extract_keywords(n.item, FALSE, FALSE)[1].text
                             = DisplayName(n.item)

\* A tallied tree with two counted steps of one name, one of them below an
\* untagged keyword that is not counted
C6_Witness ==
    /\ Tallied
    /\ keyword_counts = (OpenBrowser :> 2)
    /\ \E n, m \in StepNodes(suite) :
          /\ n.item.tags = <<>>
          /\ n.item.type = "KEYWORD"
          /\ IsCounted(m.item)
          /\ m.suite = n.suite /\ m.root = n.root
          /\ m.path = n.path \o <<1>>

\* How many of the steps a suite owns itself are counted under the name
OwnCount(s, name) ==
    Cardinality({ a \in OwnNodes(s) :
                    IsCounted(a.item) /\ DisplayName(a.item) = name })

\* The sum of the numbers of a sequence
RECURSIVE Sum(_)
Sum(numbers) ==
    IF numbers = <<>> THEN 0 ELSE Head(numbers) + Sum(Tail(numbers))

(* C7: the mapping returned by count_keyword_occurrences for a suite is the *)
(* pointwise sum of the counts of the suite's own setup, teardown and tests *)
(* and of the mappings of each of its sub-suites, to any nesting depth.     *)
C7_CountsSumOverSubsuites ==
    Tallied =>
        /\ keyword_counts = count_keyword_occurrences(suite)
        /\ \A sp \in SuitePaths(suite) :
              LET s    == SuiteAt(suite, sp)
                  m    == count_keyword_occurrences(s)
                  subs == [i \in 1..Len(s.suites) |->
                              count_keyword_occurrences(s.suites[i])]
                  own  == OwnNodes(s)
                  keys == DOMAIN m \cup { DisplayName(a.item) : a \in own }
                          \cup UNION { DOMAIN subs[i] : i \in 1..Len(subs) }
              IN  \A name \in keys :
                      dict_get(m, name) =
                          Cardinality({ a \in own : /\ IsCounted(a.item)
                                                    /\ DisplayName(a.item) = name })
                          + Sum([i \in 1..Len(subs) |-> dict_get(subs[i], name)])

\* A keyword counted once in the parent suite and twice across two child
\* suites has count 3
C7_Witness ==
    /\ Tallied
    /\ Len(suite.suites) = 2
    /\ OwnCount(suite, OpenBrowser) = 1
    /\ dict_get(count_keyword_occurrences(suite.suites[1]), OpenBrowser) = 1
    /\ dict_get(count_keyword_occurrences(suite.suites[2]), OpenBrowser) = 1
    /\ keyword_counts[OpenBrowser] = 3


\* How many of the lines are of the kind
LinesOfKind(lines, kind) ==
    Cardinality({ i \in 1..Len(lines) : lines[i].line = kind })

\* The suites of the tree that own a test, directly or through sub-suites
SuitesWithTests(tree) ==
    { sp \in SuitePaths(tree) : TestsOf(SuiteAt(tree, sp)) # {} }

(* C8: for every tree with zero tests anywhere, totalTests is 0 and no      *)
(* suite block is emitted; process_suite emits a suite block only for a     *)
(* suite that directly or transitively owns at least one test.              *)
C8_SuiteBlocksOnlyForSuitesWithTests ==
    Rendered =>
        /\ TestsOf(suite) = {} =>
              /\ total_test_cases = 0
              /\ LinesOfKind(html_lines, "<div class='test-suite'>") = 0
        /\ LinesOfKind(html_lines, "<div class='test-suite'>")
               = Cardinality(SuitesWithTests(suite))

(* C8 as amended: for every tree with zero tests anywhere, totalTests is 0  *)
(* and no test block is emitted; process_suite emits a suite block for      *)
(* every suite of the tree, also for one that owns no test directly or      *)
(* transitively, and every opened suite block is closed.                    *)
C8_SuiteBlockForEverySuite ==
    Rendered =>
        /\ TestsOf(suite) = {} =>
              /\ total_test_cases = 0
              /\ LinesOfKind(html_lines, "<div class='test-case'> test") = 0
        /\ LinesOfKind(html_lines, "<div class='test-suite'>")
               = Cardinality(SuitePaths(suite))
        /\ LinesOfKind(html_lines, "</div></div> suite")
               = Cardinality(SuitePaths(suite))

\* A rendered tree of three suites without any test: three suite blocks
C8_Witness ==
    /\ Rendered
    /\ TestsOf(suite) = {}
    /\ Cardinality(SuitePaths(suite)) = 3
    /\ total_test_cases = 0
    /\ LinesOfKind(html_lines, "<div class='test-suite'>") = 3

(* C9: totalTests, as returned by count_test_cases_and_keywords, is the     *)
(* number of tests of the root suite and of every transitive sub-suite,     *)
(* each test once.                                                          *)
C9_TotalTestsCountsEveryTest ==
    Counted => total_test_cases = Cardinality(TestsOf(suite))

\* A counted tree with tests in the root suite, in a sub-suite and in a
\* sub-suite of the sub-suite
C9_Witness ==
    /\ Counted
    /\ total_test_cases = 4
    /\ suite.tests # <<>>
    /\ \E sp \in SuitePaths(suite) :
          /\ Len(sp) = 2
          /\ SuiteAt(suite, sp).tests # <<>>
          /\ SuiteAt(suite, <<sp[1]>>).tests # <<>>

\* One suite, one test, no setup or teardown anywhere, and a body of three
\* executed keyword calls without children named Open Browser, Enter
\* Credentials and Click Submit
IsLoginExample(tree) ==
    /\ tree.suites = <<>>
    /\ tree.setup = NoKeyword /\ tree.teardown = NoKeyword
    /\ Len(tree.tests) = 1
    /\ tree.tests[1].setup = NoKeyword /\ tree.tests[1].teardown = NoKeyword
    /\ Len(tree.tests[1].body) = 3
    /\ \A i \in 1..3 :
          /\ tree.tests[1].body[i].type = "KEYWORD"
          /\ tree.tests[1].body[i].status = "PASS"
          /\ tree.tests[1].body[i].body = <<>>
    /\ [i \in 1..3 |-> tree.tests[1].body[i].kwname]
           = <<OpenBrowser, EnterCredentials, ClickSubmit>>

\* What the example is said to yield: one suite block, one test block with
\* the three items in order, and the three numbers
LoginExampleYield ==
    /\ total_test_cases = 1
    /\ total_keywords = 3
    /\ keyword_counts =
           [name \in {OpenBrowser, EnterCredentials, ClickSubmit} |-> 1]
    /\ LinesOfKind(html_lines, "<div class='test-suite'>") = 1
    /\ LinesOfKind(html_lines, "<div class='test-case'> test") = 1
    /\ ItemNames(html_lines) = <<OpenBrowser, EnterCredentials, ClickSubmit>>
    /\ SubSeq(html_lines, 2, Len(html_lines) - 1) =
           <<SuiteOpen(suite.name), TestOpen(suite.tests[1].name)>>
           \o [i \in 1..3 |-> LiItem("", suite.tests[1].body[i].tags,
                                     suite.tests[1].body[i].kwname)]
           \o <<TestClose, SuiteClose>>

(* C10 as stated: a suite with one test whose body is three executed plain  *)
(* keyword invocations [Open Browser, Enter Credentials, Click Submit], no  *)
(* children, no setup or teardown, yields one suite block, one test block   *)
(* with exactly 3 rendered items in that order, totalTests = 1,             *)
(* totalKeywords = 3 and keywordOccurrences = 1 for each of the three.      *)
C10_LoginExample ==
    (Rendered /\ IsLoginExample(suite)) => LoginExampleYield

(* C10 as amended: the same, for three keyword invocations that each carry  *)
(* the user_defined tag.                                                    *)
C10_TaggedLoginExample ==
    (/\ Rendered
     /\ IsLoginExample(suite)
     /\ \A i \in 1..3 : has_user_defined_tag(suite.tests[1].body[i].tags))
    => LoginExampleYield

\* The tagged example, rendered
C10_Witness ==
    /\ Rendered
    /\ suite = LoginExample(UserDefined)
    /\ Len(html_lines) = 9

----------------------------------------------------------------------------
\* The bodies of some steps, one after the other
RECURSIVE BodiesOf(_)
BodiesOf(steps) ==
    IF steps = <<>> THEN <<>> ELSE Head(steps).body \o BodiesOf(Tail(steps))

\* One suite, one test, no setup or teardown anywhere, and a body of one
\* executed FOR whose children are executed FOR ITERATIONs that hold, in
\* all, two executed keyword calls named Log Message without children
IsLoopExample(tree) ==
    /\ tree.suites = <<>> /\ ~Truthy(tree.setup) /\ ~Truthy(tree.teardown)
    /\ Len(tree.tests) = 1
    /\ ~Truthy(tree.tests[1].setup) /\ ~Truthy(tree.tests[1].teardown)
    /\ Len(tree.tests[1].body) = 1
    /\ LET loop  == tree.tests[1].body[1]
           calls == BodiesOf(loop.body)
       IN  /\ loop.type = "FOR" /\ loop.status # "NOT RUN"
           /\ loop.body # <<>>
           /\ \A i \in 1..Len(loop.body) :
                  /\ loop.body[i].type = "FOR ITERATION"
                  /\ loop.body[i].status # "NOT RUN"
           /\ Len(calls) = 2
           /\ \A i \in 1..2 :
                  /\ calls[i].type = "KEYWORD"
                  /\ calls[i].status # "NOT RUN"
                  /\ calls[i].kwname = LogMessage
                  /\ calls[i].body = <<>>

\* The two calls of the loop example
LoopCalls(tree) == BodiesOf(tree.tests[1].body[1].body)

\* What the loop example is said to yield: one test block with exactly two
\* rendered items, both named Log Message, and a count of 2 for that name
LoopExampleYield ==
    /\ LinesOfKind(html_lines, "<div class='test-case'> test") = 1
    /\ ItemNames(html_lines) = <<LogMessage, LogMessage>>
    /\ LogMessage \in DOMAIN keyword_counts
    /\ keyword_counts[LogMessage] = 2

(* C11 as stated: a test whose only body step is an executed loop (FOR with *)
(* its FOR ITERATION children) wrapping two executed invocations of a       *)
(* keyword named "Log Message" yields a test block with exactly 2 rendered  *)
(* step items, both named "Log Message", and                                *)
(* keywordOccurrences["Log Message"] = 2.                                   *)
C11_LoopExample ==
    (Rendered /\ IsLoopExample(suite)) => LoopExampleYield

(* C11 as amended: the same, for two invocations that each carry the        *)
(* user_defined tag.                                                        *)
C11_TaggedLoopExample ==
    (/\ Rendered
     /\ IsLoopExample(suite)
     /\ \A i \in 1..2 : /\ hasattr(LoopCalls(suite)[i], "tags")
                        /\ has_user_defined_tag(LoopCalls(suite)[i].tags))
    => LoopExampleYield

\* The tagged loop example with one call in each of two iterations, rendered
C11_Witness ==
    /\ Rendered
    /\ suite = LoopExample(UserDefined, 2)
    /\ ItemNames(html_lines) = <<LogMessage, LogMessage>>

----------------------------------------------------------------------------
\* s.split()[0] of a name without leading white space: the text before the
\* first space
RECURSIVE FirstToken(_)
FirstToken(s) ==
    IF s = <<>> \/ Head(s) = " " THEN <<>>
    ELSE <<Head(s)>> \o FirstToken(Tail(s))

\* Two consecutive spaces somewhere in s
HasDoubleSpace(s) ==
    \E i \in 1..(Len(s) - 1) : s[i] = " " /\ s[i + 1] = " "

\* d is raw up to, and without, the first two consecutive spaces of raw; all
\* of raw if raw has none
IsUpToDoubleSpace(d, raw) ==
    /\ Len(d) <= Len(raw)
    /\ d = SubSeq(raw, 1, Len(d))
    /\ \/ Len(d) = Len(raw) /\ ~HasDoubleSpace(raw)
       \/ /\ Len(d) + 2 <= Len(raw)
          /\ raw[Len(d) + 1] = " " /\ raw[Len(d) + 2] = " "
          /\ ~HasDoubleSpace(SubSeq(raw, 1, Len(d) + 1))

(* C12 as stated: the display name of an emitted step is only the first     *)
(* whitespace-delimited token of the step's raw name, both in the rendered  *)
(* item and in the keywordOccurrences key.                                  *)
C12_FirstTokenOnly ==
    Rendered =>
        /\ \A n \in StepNodes(suite) :
              IsEmitted(n.item) =>
                  extract_keywords(n.item, FALSE, FALSE)[1].text
                      = FirstToken(n.item.kwname)
        /\ DOMAIN keyword_counts =
               { FirstToken(n.item.kwname) :
                   n \in { m \in StepNodes(suite) : IsCounted(m.item) } }

(* C12 as amended: the display name of an emitted step is the step's raw    *)
(* name up to its first two consecutive spaces (the whole raw name if it    *)
(* has none); what follows them is discarded, both in the rendered item and *)
(* in the keywordOccurrences key.                                           *)
C12_NameUpToDoubleSpace ==
    Rendered =>
        /\ \A n \in StepNodes(suite) :
              IsEmitted(n.item) =>
                  IsUpToDoubleSpace(
                      extract_keywords(n.item, FALSE, FALSE)[1].text,
                      n.item.kwname)
        /\ \A n \in StepNodes(suite) :
              IsCounted(n.item) =>
                  \E k \in DOMAIN keyword_counts :
                      IsUpToDoubleSpace(k, n.item.kwname)
        /\ \A k \in DOMAIN keyword_counts :
              \E n \in StepNodes(suite) :
                  IsCounted(n.item) /\ IsUpToDoubleSpace(k, n.item.kwname)
        /\ \A i \in 1..Len(html_lines) :
              IsItem(html_lines[i]) =>
                  \E n \in StepNodes(suite) :
                      /\ IsEmitted(n.item)
                      /\ IsUpToDoubleSpace(html_lines[i].text, n.item.kwname)

\* A rendered step whose raw name is "Open Browser  chrome": shown and
\* counted as "Open Browser"
C12_Witness ==
    /\ Rendered
    /\ \E n \in StepNodes(suite) :
          /\ n.item.kwname = OpenBrowserChrome
          /\ IsEmitted(n.item)
    /\ ItemCount(html_lines, OpenBrowser) >= 1
    /\ ItemCount(html_lines, OpenBrowserChrome) = 0
    /\ DOMAIN keyword_counts = {OpenBrowser}

----------------------------------------------------------------------------
\* The tests of a tree
AllTests(tree) == { SuiteAt(tree, a[1]).tests[a[2]] : a \in TestsOf(tree) }

\* How many sections of the title some lines open
SectionCount(lines, title) ==
    Cardinality({ i \in 1..Len(lines) : lines[i] = SectionOpen(title) })

\* The object has the setup or teardown, and it is set
Present(object, name) ==
    /\ hasattr(object, name)
    /\ Truthy(IF name = "setup" THEN object.setup ELSE object.teardown)

\* Every test of the tree got its block
AllTestsRendered ==
    LinesOfKind(html_lines, "<div class='test-case'> test")
        = Cardinality(TestsOf(suite))

(* C13 as stated: in process_suite a test's setup section (and analogously  *)
(* its teardown section) is rendered only if the setup is present and has   *)
(* at least one child step; a present setup with an empty body produces no  *)
(* setup section.                                                           *)
C13_SectionOnlyForNonTrivialFixture ==
    Rendered =>
        \A test \in AllTests(suite) :
            /\ SectionCount(process_test(test), "Test Setup") =
                   (IF Present(test, "setup") /\ test.setup.body # <<>>
                    THEN 1 ELSE 0)
            /\ SectionCount(process_test(test), "Test Teardown") =
                   (IF Present(test, "teardown") /\ test.teardown.body # <<>>
                    THEN 1 ELSE 0)

(* C13 as amended: in process_suite a test's setup section (and analogously *)
(* its teardown section) is rendered if and only if the setup is present,   *)
(* whether or not it has child steps: a present setup with an empty body    *)
(* produces a setup section too, and an absent one produces none.           *)
C13_SectionForEveryPresentFixture ==
    Rendered =>
        /\ \A test \in AllTests(suite) :
              /\ SectionCount(process_test(test), "Test Setup") =
                     (IF Present(test, "setup") THEN 1 ELSE 0)
              /\ SectionCount(process_test(test), "Test Teardown") =
                     (IF Present(test, "teardown") THEN 1 ELSE 0)
        /\ AllTestsRendered =>
              /\ SectionCount(html_lines, "Test Setup") =
                     Cardinality({ a \in TestsOf(suite) :
                         Present(SuiteAt(suite, a[1]).tests[a[2]], "setup") })
              /\ SectionCount(html_lines, "Test Teardown") =
                     Cardinality({ a \in TestsOf(suite) :
                         Present(SuiteAt(suite, a[1]).tests[a[2]], "teardown") })

\* A rendered tree with a test whose setup and teardown have no child steps:
\* both sections are there, for this test and for the one next to it
C13_Witness ==
    /\ Rendered
    /\ AllTestsRendered
    /\ \E test \in AllTests(suite) :
          /\ Present(test, "setup") /\ test.setup.body = <<>>
          /\ Present(test, "teardown") /\ test.teardown.body = <<>>
    /\ SectionCount(html_lines, "Test Setup") = 2
    /\ SectionCount(html_lines, "Test Teardown") = 2

----------------------------------------------------------------------------
(* C14: absence of an optional attribute (setup, teardown, tags) on a       *)
(* suite, test or step is treated as 'feature not present' and never        *)
(* raises: for every tree in which any subset of these attributes is        *)
(* missing, count_test_cases_and_keywords, count_keyword_occurrences,       *)
(* get_user_defined_keywords and process_suite all complete normally.       *)
C14_AbsentAttributesNeverRaise == pc # "AttributeError"

\* The part of C14 that holds: a tree whose suites all have setup and
\* teardown is counted, tallied and rendered whatever its tests and steps lack
C14_AbsentTestAndStepAttributes ==
    (pc = "AttributeError") =>
        \E sp \in SuitePaths(suite) : SuiteAt(suite, sp).absent # {}

----------------------------------------------------------------------------
\* html_lines is the whole document: the head, the suites, the closing lines
IsWholeDocument(lines) ==
    /\ Len(lines) >= 4
    /\ lines[1] = Header(total_test_cases, total_keywords, keyword_counts)
    /\ lines[2] = SuiteOpen(suite.name)
    /\ lines[Len(lines) - 1] = SuiteClose
    /\ lines[Len(lines)] = Footer(user_defined_keywords)

(* C15: the output file is written at most once per run and only after      *)
(* argument checking, parsing, counting and rendering have all completed:   *)
(* on a usage error the process exits with non-zero status and writes no    *)
(* file, and on any failure raised before the write step no file, complete  *)
(* or partial, is written.                                                  *)
C15_WrittenOnceAfterAllSteps ==
    /\ [](pc # "done" => files = NoFiles)
    /\ [](pc = "done" => /\ DOMAIN files = {ReportName}
                         /\ IsWholeDocument(files[ReportName]))
    /\ [][files' # files =>
             /\ files = NoFiles
             /\ pc = "write" /\ pc' = "done"
             /\ Len(argv) = 2 /\ suite # NoSuite
             /\ files' = [name \in {ReportName} |-> html_lines]]_vars

\* The end of a run that wrote the report
C15_Witness ==
    /\ pc = "done"
    /\ DOMAIN files = {ReportName}
    /\ Len(files[ReportName]) > 4

----------------------------------------------------------------------------
(* C16 as stated: the command line accepts a required input file path and   *)
(* an optional output path: with an input path only the report is written   *)
(* to the fixed default filename; with an input path and an output path the *)
(* run is accepted (not a usage error) and the report is written to the     *)
(* given output path.                                                       *)
C16_OptionalOutputPath ==
    /\ Len(argv) \in {2, 3} => pc # "exit 1"
    /\ (pc = "done" /\ Len(argv) = 2) => DOMAIN files = {ReportName}
    /\ (pc = "done" /\ Len(argv) = 3) => DOMAIN files = {argv[3]}

(* C16 as amended: the command line accepts exactly one argument, the input *)
(* file path: with an input path only the run is accepted and the report is *)
(* written to the fixed filename; with no argument, or with an input path   *)
(* and an output path, the run is a usage error: exit status 1, nothing     *)
(* parsed and no file written.                                              *)
C16_ExactlyOneArgument ==
    /\ Len(argv) = 2 => pc # "exit 1"
    /\ Len(argv) # 2 => /\ pc \in {"start", "exit 1"}
                        /\ suite = NoSuite
                        /\ files = NoFiles
    /\ pc = "done" => DOMAIN files = {ReportName}

\* The run with an input path and an output path, ended as a usage error
C16_Witness ==
    /\ pc = "exit 1"
    /\ Len(argv) = 3
    /\ files = NoFiles

----------------------------------------------------------------------------
(* C17: no traversal mutates the source tree: once parsed, the tree (every  *)
(* suite, test and step with its names, types, statuses, tags, bodies,      *)
(* setup and teardown links and child order) is the same after              *)
(* count_test_cases_and_keywords, get_user_defined_keywords,                *)
(* count_keyword_occurrences and process_suite as before them.              *)
C17_TreeUnchanged == [][pc # "parse" => suite' = suite]_vars

\* The end of a run over a tree with setups, steps below steps and
\* sub-suites, all four traversals done
C17_Witness ==
    /\ pc = "done"
    /\ suite.suites # <<>>
    /\ Truthy(suite.setup)
    /\ \E n \in StepNodes(suite) : n.path # <<>>

----------------------------------------------------------------------------
\* The steps of the tree that pass the filter of extract_keywords
PassingSteps(tree) == { n \in StepNodes(tree) : IsEmitted(n.item) }

(* C18: every step that extract_keywords emits appears exactly once in the  *)
(* rendered step sequence: when an emitted keyword has a non-empty body,    *)
(* each emitted child appears only inside that keyword's nested list and is *)
(* not emitted a second time at the parent's level, so the number of        *)
(* rendered items never exceeds the number of distinct steps passing the    *)
(* filter.                                                                  *)
C18_EmittedOnce ==
    Rendered =>
        /\ Len(ItemNames(html_lines)) <= Cardinality(PassingSteps(suite))
        /\ \A n \in PassingSteps(suite) :
              LET out == extract_keywords(n.item, FALSE, FALSE)
              IN  n.item.body # <<>> => out[Len(out)] = LiClose

----------------------------------------------------------------------------
(* C19: every test counted in totalTests is rendered by process_suite as    *)
(* exactly one 'Test Case' block, also when two tests in the same suite, or *)
(* in two different suites that carry the same name, share a test name;     *)
(* hence the number of rendered test blocks equals totalTests.              *)
C19_EveryTestRenderedOnce ==
    Rendered =>
        /\ LinesOfKind(html_lines, "<div class='test-case'> test")
               = total_test_cases
        /\ \A a \in TestsOf(suite) :
              \E i \in 1..Len(html_lines) :
                  html_lines[i] = TestOpen(SuiteAt(suite, a[1]).tests[a[2]].name)

----------------------------------------------------------------------------
(* The order of the source.  A mark is what a rendered line shows: the kind *)
(* of block or item and its name.                                           *)

Mark(kind, text) == [kind |-> kind, text |-> text]

\* The marks of some lines, in order
RECURSIVE Marks(_)
Marks(lines) ==
    IF lines = <<>> THEN <<>>
    ELSE LET l == Head(lines)
         IN  (IF IsItem(l) THEN <<Mark("item", l.text)>>
              ELSE IF l.line = "<div class='test-suite'>"
                   THEN <<Mark("suite", l.text)>>
              ELSE IF l.line = "<div class='test-case'> test"
                   THEN <<Mark("test", l.text)>>
              ELSE IF l.line = "<div class='test-case'> section"
                   THEN <<Mark("section", l.text)>>
              ELSE <<>>)
             \o Marks(Tail(lines))

\* The steps at and below an item that pass the filter and are reached
\* through executed containers and passing steps, first to last, each before
\* what is below it.  With again, what is below a step follows it a second
\* time, as lines 63-66 render it after the nested list of lines 47-52.
RECURSIVE StepsInOrder(_, _), BodyInOrder(_, _)
StepsInOrder(item, again) ==
    IF item.status = "NOT RUN" THEN <<>>
    ELSE IF item.type \in KeywordTypes
         THEN IF IsEmitted(item)
              THEN <<Mark("item", DisplayName(item))>>
                   \o BodyInOrder(item.body, again)
                   \o (IF again THEN BodyInOrder(item.body, again) ELSE <<>>)
              ELSE <<>>
         ELSE BodyInOrder(item.body, again)
BodyInOrder(body, again) ==
    IF body = <<>> THEN <<>>
    ELSE StepsInOrder(Head(body), again) \o BodyInOrder(Tail(body), again)

\* A setup or teardown under its title, if present
FixtureInOrder(object, name, title, again) ==
    IF Present(object, name)
    THEN <<Mark("section", title)>>
         \o StepsInOrder(IF name = "setup" THEN object.setup
                         ELSE object.teardown, again)
    ELSE <<>>

\* A test: its name, its setup, its body in the order of test.body (items of
\* type SETUP or TEARDOWN left out), its teardown
TestInOrder(test, again) ==
    <<Mark("test", test.name)>>
    \o FixtureInOrder(test, "setup", "Test Setup", again)
    \o BodyInOrder(SelectSeq(test.body,
                             LAMBDA k : k.type \notin {"SETUP", "TEARDOWN"}),
                   again)
    \o FixtureInOrder(test, "teardown", "Test Teardown", again)

\* The tests of a suite in the order of suite.tests, without those whose id
\* was seen before
RECURSIVE TestsInOrder(_, _, _, _)
TestsInOrder(s, tests, seen, again) ==
    IF tests = <<>> THEN [marks |-> <<>>, seen |-> seen]
    ELSE LET id   == test_id(s, Head(tests))
             rest == TestsInOrder(s, Tail(tests), seen \cup {id}, again)
         IN  [marks |-> (IF id \in seen THEN <<>>
                         ELSE TestInOrder(Head(tests), again))
                        \o rest.marks,
              seen |-> rest.seen]

\* A suite: its name, its setup, its sub-suites in the order of suite.suites,
\* its tests, its teardown
RECURSIVE SuiteInOrder(_, _, _), SuitesInOrder(_, _, _)
SuiteInOrder(s, seen, again) ==
    LET subs  == SuitesInOrder(s.suites, seen, again)
        tests == TestsInOrder(s, s.tests, subs.seen, again)
    IN  [marks |-> <<Mark("suite", s.name)>>
                   \o FixtureInOrder(s, "setup", "Suite Setup", again)
                   \o subs.marks \o tests.marks
                   \o FixtureInOrder(s, "teardown", "Suite Teardown", again),
         seen |-> tests.seen]
SuitesInOrder(suites, seen, again) ==
    IF suites = <<>> THEN [marks |-> <<>>, seen |-> seen]
    ELSE LET first == SuiteInOrder(Head(suites), seen, again)
             rest  == SuitesInOrder(Tail(suites), first.seen, again)
         IN  [marks |-> first.marks \o rest.marks, seen |-> rest.seen]

\* The position of the </ul> that closes the list which is open, at depth
\* open, before line i; 0 if the list is not closed
RECURSIVE ListEnd(_, _, _)
ListEnd(lines, i, open) ==
    IF i > Len(lines) THEN 0
    ELSE IF lines[i] = UlOpen THEN ListEnd(lines, i + 1, open + 1)
    ELSE IF lines[i] = UlClose
         THEN IF open = 1 THEN i ELSE ListEnd(lines, i + 1, open - 1)
    ELSE ListEnd(lines, i + 1, open)

\* The lines of the nested list of a rendered step with nested items: those
\* between the <ul> that follows the opening of the item and its </ul>
NestedList(lines) == SubSeq(lines, 3, ListEnd(lines, 3, 1) - 1)

\* a is b without some of its elements
RECURSIVE IsSubsequence(_, _)
IsSubsequence(a, b) ==
    IF a = <<>> THEN TRUE
    ELSE IF b = <<>> THEN FALSE
    ELSE IF Head(a).kind = Head(b).kind /\ Head(a).text = Head(b).text
         THEN IsSubsequence(Tail(a), Tail(b))
         ELSE IsSubsequence(a, Tail(b))

(* C20: rendering preserves source order: within a suite block the rendered *)
(* tests appear in the order of suite.tests, within a test block the        *)
(* sequence is test setup, then body steps in the order of test.body, then  *)
(* test teardown, and within any emitted step the nested items appear in    *)
(* the order of that step's body.  The rendered marks are exactly the marks *)
(* of the source in its order, what is below a rendered step once in its    *)
(* nested list and once more after it; the nested list of a rendered step   *)
(* holds exactly the marks of its body in the order of the body; and the    *)
(* marks of the source, each taken once, are found in that order among the  *)
(* rendered ones.                                                           *)
C20_SourceOrderPreserved ==
    Rendered =>
        LET source   == SuiteInOrder(suite, {}, FALSE).marks
            rendered == Marks(html_lines)
        IN  /\ rendered = SuiteInOrder(suite, {}, TRUE).marks
            /\ IsSubsequence(source, rendered)
            /\ (\A n \in PassingSteps(suite) : n.item.body = <<>>)
                   => rendered = source
            /\ \A n \in PassingSteps(suite) :
                  LET out == extract_keywords(n.item, FALSE, FALSE)
                  IN  /\ IsSubsequence(BodyInOrder(n.item.body, FALSE),
                                       Marks(SubSeq(out, 3, Len(out))))
                      /\ n.item.body # <<>> =>
                             /\ out[2] = UlOpen
                             /\ ListEnd(out, 3, 1) > 0
                             /\ Marks(NestedList(out))
                                    = BodyInOrder(n.item.body, TRUE)

\* A rendered suite of two tests in the order of suite.tests, the first with
\* a setup, two body steps and a teardown in that order; its setup and its
\* second body step have two nested items of different names, rendered in
\* the order of the body, in the nested list and after it
C20_Witness ==
    /\ Rendered
    /\ suite = NestedSteps
    /\ Marks(html_lines) =
           <<Mark("suite", LoginTests),
             Mark("test", ValidLogin),
             Mark("section", "Test Setup"), Mark("item", OpenBrowser),
             Mark("item", LogMessage), Mark("item", EnterCredentials),
             Mark("item", LogMessage), Mark("item", EnterCredentials),
             Mark("item", ClickSubmit),
             Mark("item", EnterCredentials),
             Mark("item", LogMessage), Mark("item", OpenBrowser),
             Mark("item", LogMessage), Mark("item", OpenBrowser),
             Mark("section", "Test Teardown"), Mark("item", LogMessage),
             Mark("test", <<"Login">>), Mark("item", OpenBrowser)>>
    /\ Marks(NestedList(extract_keywords(suite.tests[1].body[2], FALSE, FALSE)))
           = <<Mark("item", LogMessage), Mark("item", OpenBrowser)>>

\* A rendered suite of two tests, the first with a setup, a body item and a
\* teardown, the second with two body items, all in the order of the source
C20_BareFixturesInOrder ==
    (Rendered /\ suite = BareFixtures) =>
        Marks(html_lines) =
           <<Mark("suite", LoginTests),
             Mark("test", ValidLogin),
             Mark("section", "Test Setup"), Mark("item", OpenBrowser),
             Mark("item", EnterCredentials),
             Mark("section", "Test Teardown"),
             Mark("test", <<"Login">>),
             Mark("section", "Test Setup"), Mark("item", LogMessage),
             Mark("item", OpenBrowser), Mark("item", OpenBrowser),
             Mark("item", LogMessage),
             Mark("section", "Test Teardown"), Mark("item", LogMessage)>>

----------------------------------------------------------------------------
(* The elements a line opens and closes.  The opening of a suite block      *)
(* leaves two <div> open, test-suite and suite-content (lines 73-81), and   *)
(* its closing closes two (153-155); the opening of a test block or of a    *)
(* setup or teardown section leaves test-case and keywords open (106-109,   *)
(* 85-88) and its closing closes two (138-140, 90-92).                      *)

\* The elements a line leaves open, outermost first
Opened(l) ==
    CASE l.line = "<li>" -> <<"li">>
      [] l.line = "<ul>" -> <<"ul">>
      [] l.line = "<div class='test-suite'>" -> <<"div suite", "div suite">>
      [] l.line = "<div class='test-case'> test" -> <<"div test", "div test">>
      [] l.line = "<div class='test-case'> section"
             -> <<"div section", "div section">>
      [] OTHER -> <<>>

\* The elements a line closes, innermost first
Closed(l) ==
    CASE l.line = "</li>" -> <<"li">>
      [] l.line = "</ul>" -> <<"ul">>
      [] l.line = "</div></div> suite" -> <<"div suite", "div suite">>
      [] l.line = "</div></div> test" -> <<"div test", "div test">>
      [] l.line = "</div></div> section" -> <<"div section", "div section">>
      [] OTHER -> <<>>

\* The open elements after some lines, innermost first, starting from the
\* open elements in stack; <<"unbalanced">> once a line closes an element
\* that is not the innermost open one
RECURSIVE OpenAfter(_, _)
OpenAfter(lines, stack) ==
    IF stack = <<"unbalanced">> \/ lines = <<>> THEN stack
    ELSE LET l == Head(lines)
             c == Closed(l)
         IN  IF c # <<>>
             THEN IF Len(stack) >= Len(c) /\ SubSeq(stack, 1, Len(c)) = c
                  THEN OpenAfter(Tail(lines),
                                 SubSeq(stack, Len(c) + 1, Len(stack)))
                  ELSE <<"unbalanced">>
             ELSE LET o == Opened(l)
                  IN  OpenAfter(Tail(lines),
                                [i \in 1..Len(o) |-> o[Len(o) + 1 - i]] \o stack)

\* No line closes what is not open, and nothing is left open
WellNested(lines) == OpenAfter(lines, <<>>) = <<>>

(* C21: the opening and closing markers appended to html_lines by           *)
(* process_suite and extract_keywords are well-nested for every tree: at    *)
(* every prefix the closes never exceed the opens, every <li>/<ul> opened   *)
(* by extract_keywords is closed by the same call, every suite and test     *)
(* block opened is closed, and the depth after process_suite returns is the *)
(* depth before it was called.                                              *)
C21_MarkersWellNested ==
    Rendered =>
        /\ WellNested(SubSeq(html_lines, 2, Len(html_lines) - 1))
        /\ \A n \in StepNodes(suite) :
              \A f \in Flags : WellNested(extract_keywords(n.item, f[1], f[2]))
        /\ LinesOfKind(html_lines, "<div class='test-case'> test")
               = LinesOfKind(html_lines, "</div></div> test")
        /\ LinesOfKind(html_lines, "<li>") = LinesOfKind(html_lines, "</li>")
        /\ LinesOfKind(html_lines, "<ul>") = LinesOfKind(html_lines, "</ul>")

\* A rendered tree with a foldable item in a setup section of a test of a
\* sub-suite: ten elements are open inside the item's list
C21_Witness ==
    /\ Rendered
    /\ suite.suites # <<>>
    /\ \E i \in 2..(Len(html_lines) - 1) :
          /\ html_lines[i] = UlOpen
          /\ Len(OpenAfter(SubSeq(html_lines, 2, i), <<>>)) >= 10

----------------------------------------------------------------------------
(* The blocks of the rendering, read against the tree.  Each operator takes *)
(* the lines and the index of the line to read next, and gives the index    *)
(* after what it has read, or 0 if the lines do not hold it there.          *)

\* The index of the first line of the kind at or after i; 0 if there is none
RECURSIVE NextOfKind(_, _, _)
NextOfKind(lines, i, kind) ==
    IF i < 1 \/ i > Len(lines) THEN 0
    ELSE IF lines[i].line = kind THEN i
    ELSE NextOfKind(lines, i + 1, kind)

\* A setup or teardown section of the title, if the suite has the setup or
\* teardown, and nothing if it has not
AfterSection(lines, i, s, name, title) ==
    IF i = 0 THEN 0
    ELSE IF ~Present(s, name) THEN i
    ELSE IF i <= Len(lines) /\ lines[i] = SectionOpen(title)
         THEN LET close == NextOfKind(lines, i + 1, "</div></div> section")
              IN  IF close = 0 THEN 0 ELSE close + 1
         ELSE 0

\* Test blocks of the suite, one after the other: each bears the name of a
\* test of the suite later in suite.tests than the one before it
RECURSIVE AfterTests(_, _, _, _)
AfterTests(lines, i, s, k) ==
    IF i = 0 THEN 0
    ELSE IF i > Len(lines) \/ lines[i].line # "<div class='test-case'> test"
         THEN i
    ELSE LET later == { j \in (k + 1)..Len(s.tests) :
                          s.tests[j].name = lines[i].text }
             close == NextOfKind(lines, i + 1, "</div></div> test")
         IN  IF later = {} \/ close = 0 THEN 0
             ELSE AfterTests(lines, close + 1, s,
                             CHOOSE j \in later : \A m \in later : j <= m)

\* The block of the suite: its opening, its setup section, the whole blocks
\* of its sub-suites in the order of suite.suites, its test blocks, its
\* teardown section, its closing
RECURSIVE AfterSuite(_, _, _), AfterSubsuites(_, _, _)
AfterSuite(lines, i, s) ==
    IF i = 0 \/ i > Len(lines) \/ lines[i] # SuiteOpen(s.name) THEN 0
    ELSE LET a == AfterSection(lines, i + 1, s, "setup", "Suite Setup")
             b == AfterSubsuites(lines, a, s.suites)
             c == AfterTests(lines, b, s, 0)
             d == AfterSection(lines, c, s, "teardown", "Suite Teardown")
         IN  IF d = 0 \/ d > Len(lines) \/ lines[d] # SuiteClose THEN 0
             ELSE d + 1
AfterSubsuites(lines, i, suites) ==
    IF i = 0 \/ suites = <<>> THEN i
    ELSE AfterSubsuites(lines, AfterSuite(lines, i, Head(suites)), Tail(suites))

(* C22: within each suite block process_suite emits, in this order: the     *)
(* suite setup section (if any), then the complete blocks of all sub-suites *)
(* in source order, then the suite's own test blocks, then the suite        *)
(* teardown section (if any); every sub-suite block is wholly contained in  *)
(* its parent's block, so a depth-first pre-order of suites is produced.    *)
C22_SuiteBlockOrder ==
    Rendered =>
        /\ AfterSuite(html_lines, 2, suite) = Len(html_lines)
        /\ \A sp \in SuitePaths(suite) :
              LET block == process_suite(SuiteAt(suite, sp), {}).html
              IN  AfterSuite(block, 1, SuiteAt(suite, sp)) = Len(block) + 1

\* A rendered suite with a setup, a teardown, tests and a sub-suite that has
\* tests of its own
C22_Witness ==
    /\ Rendered
    /\ Present(suite, "setup") /\ Present(suite, "teardown")
    /\ suite.tests # <<>>
    /\ suite.suites # <<>>
    /\ suite.suites[1].tests # <<>>
    /\ AllTestsRendered

----------------------------------------------------------------------------
\* The elements of a sequence
Range(seq) == { seq[i] : i \in 1..Len(seq) }

(* C23: for every tree, the set of keys of the mapping returned by          *)
(* count_keyword_occurrences equals the set of names returned by            *)
(* get_user_defined_keywords, every key has count >= 1, and the list        *)
(* returned by get_user_defined_keywords is sorted ascending and contains   *)
(* no duplicates.                                                           *)
C23_KeysAreUserDefinedKeywords ==
    Tallied =>
        /\ DOMAIN keyword_counts = Range(user_defined_keywords)
        /\ \A k \in DOMAIN keyword_counts : keyword_counts[k] >= 1
        /\ \A i \in 1..Len(user_defined_keywords) :
              \A j \in (i + 1)..Len(user_defined_keywords) :
                  /\ user_defined_keywords[i] # user_defined_keywords[j]
                  /\ StrLess(user_defined_keywords[i], user_defined_keywords[j])

\* A tallied tree with two user-defined names, the later one found first in
\* the tree and the other one counted twice
C23_Witness ==
    /\ Tallied
    /\ user_defined_keywords = <<LogMessage, OpenBrowser>>
    /\ keyword_counts[LogMessage] = 2
    /\ keyword_counts[OpenBrowser] = 1
    /\ suite.suites = <<>>
    /\ Len(suite.tests) = 1
    /\ Len(suite.tests[1].body) = 3
    /\ suite.tests[1].body[1].kwname = OpenBrowser

\* C23, on names that begin alike: 'Log' < 'Login' < 'Login$' < 'Log{kw}' as
\* Python compares them, in the list of names and in the statistics of the
\* header
C23_PrefixNamesInOrder ==
    suite = PrefixNames =>
        /\ Tallied =>
              user_defined_keywords =
                  << <<"Log">>, <<"Login">>, <<"Login", "$">>, <<"Log", "{kw}">> >>
        /\ Rendered =>
              html_lines[1].keyword_stats =
                  << << <<"Log">>, 1 >>, << <<"Login">>, 1 >>,
                     << <<"Login", "$">>, 1 >>, << <<"Log", "{kw}">>, 2 >> >>
C23_PrefixNamesTallied == Rendered /\ suite = PrefixNames

----------------------------------------------------------------------------
\* The tag is 'user_defined' in some spelling of upper and lower case
IsUserDefinedTag(tag) == tag \in {"user_defined", "User_Defined", "USER_DEFINED"}

\* A step of type KEYWORD, SETUP or TEARDOWN with a non-empty name that does
\* not start with '$' and a tag that is 'user_defined' ignoring case
IsRenderable(item) ==
    /\ item.type \in {"KEYWORD", "SETUP", "TEARDOWN"}
    /\ Len(item.kwname) > 0
    /\ item.kwname[1] # "$"
    /\ hasattr(item, "tags")
    /\ \E tag \in Range(item.tags) : IsUserDefinedTag(tag)

(* C24: every display name that extract_keywords emits anywhere in the      *)
(* report is a key of the mapping returned by count_keyword_occurrences     *)
(* with count >= 1: a step is rendered only if it has type KEYWORD, SETUP   *)
(* or TEARDOWN, a non-empty name not starting with '$' and a tag equal to   *)
(* 'user_defined' ignoring case, and every such step is also counted.       *)
C24_RenderedNamesAreCounted ==
    Rendered =>
        LET renderable == { n \in StepNodes(suite) : IsRenderable(n.item) }
        IN  /\ \A i \in 1..Len(html_lines) :
                  IsItem(html_lines[i]) =>
                      /\ html_lines[i].text \in DOMAIN keyword_counts
                      /\ keyword_counts[html_lines[i].text] >= 1
                      /\ \E n \in renderable :
                            DisplayName(n.item) = html_lines[i].text
            /\ \A n \in StepNodes(suite) :
                  \A f \in Flags :
                      extract_keywords(n.item, f[1], f[2]) # <<>>
                          => \E q \in StepPaths(n.item) :
                                 IsRenderable(StepAt(n.item, q))
            /\ \A n \in renderable :
                  /\ DisplayName(n.item) \in DOMAIN keyword_counts
                  /\ keyword_counts[DisplayName(n.item)] >=
                         Cardinality({ m \in renderable :
                             DisplayName(m.item) = DisplayName(n.item) })

\* A rendered test with a step tagged 'User_Defined' next to another tag:
\* rendered and counted
C24_Witness ==
    /\ Rendered
    /\ suite = MixedTags
    /\ ItemNames(html_lines) = <<OpenBrowser>>
    /\ keyword_counts[OpenBrowser] = 2

----------------------------------------------------------------------------
\* No step of the tree is NOT RUN
AllRun(tree) == \A n \in StepNodes(tree) : n.item.status # "NOT RUN"

(* C25: in every tree that contains no NOT RUN step, counting and rendering *)
(* agree step by step: a step contributes to the mapping returned by        *)
(* count_keyword_occurrences only if that same step is emitted by           *)
(* extract_keywords during process_suite, including steps nested below a    *)
(* keyword that lacks the user_defined tag, steps nested below a            *)
(* '$'-placeholder keyword, tagged steps with an empty name, and            *)
(* SETUP/TEARDOWN-typed items that occur directly in a test body.  Hence no *)
(* name is counted more often than it is rendered.                          *)
C25_CountedOnlyIfRendered ==
    (Rendered /\ AllRun(suite)) =>
        \A name \in DOMAIN keyword_counts :
            keyword_counts[name] <= ItemCount(html_lines, name)

\* The part of C25 that holds: a counted step that is a body item of a test
\* that got its block, has a name and is not of type SETUP or TEARDOWN is
\* rendered
C25_CountedBodyItemsRendered ==
    (Rendered /\ AllRun(suite) /\ AllTestsRendered) =>
        \A test \in AllTests(suite) :
            \A i \in 1..Len(test.body) :
                (/\ IsCounted(test.body[i])
                 /\ test.body[i].type = "KEYWORD"
                 /\ test.body[i].kwname # <<>>)
                => ItemCount(html_lines, DisplayName(test.body[i])) >= 1


====
